---- MODULE Spec2Model ----
(***************************************************************************)
(* Model of the iceaxe schema migration planner:                           *)
(*   - the schema object model (DBTable, DBColumn, DBType, DBConstraint    *)
(*     and their pointers),                                                *)
(*   - DatabaseMemorySerializer.order_db_objects (normalisation, pointer   *)
(*     validation, dependency graph, topological rank),                    *)
(*   - DatabaseMemorySerializer.build_actions (diff of two ranked          *)
(*     snapshots into create / migrate / destroy calls),                   *)
(*   - DatabaseHandler (the declarative extractor).                        *)
(***************************************************************************)
EXTENDS Integers, Sequences, FiniteSets, TLC

VARIABLES
    pc,                 \* position of the caller / of build_actions
    db_objects,         \* order_db_objects: the (object, dependencies) pairs
    order_result,       \* order_db_objects: returned rank map or raised error
    models,             \* create_all: the models it is given; the list handed
                        \* to a second run of the extractor
    all_models,         \* create_all: the models it hands to the extractor
    prev_pairs,         \* pairs the previous snapshot was read from
    next_pairs,         \* pairs the next snapshot was read from
    previous,           \* build_actions: previous object list
    previous_ordering,  \* build_actions: previous rank map
    next,               \* build_actions: next object list
    next_ordering,      \* build_actions: next rank map
    previous_by_name,   \* build_actions: representation -> previous object
    next_by_name,       \* build_actions: representation -> next object
    prev_sorted,        \* build_actions: previous, one per representation, by rank
    next_sorted,        \* build_actions: next, one per representation, by rank
    to_delete,          \* build_actions: objects still to destroy
    idx,                \* build_actions: loop position in next_sorted
    dry_run_actions,    \* actor: the recorded calls
    started,            \* build_actions: the calls it has started, in order
    in_flight,          \* build_actions: the calls started and not yet over
    error,              \* the exception raised, or NoError
    in_transaction,     \* DBConnection.in_transaction
    open_blocks,        \* DBConnection: transaction() blocks the caller is inside
    modified_attrs,     \* TableBase.modified_attrs of every instance
    last_call           \* DBConnection: what the last insert/upsert/update/delete did

vars == <<pc, db_objects, order_result, models, all_models, prev_pairs, next_pairs, previous,
          previous_ordering, next, next_ordering, previous_by_name, next_by_name,
          prev_sorted, next_sorted, to_delete, idx, dry_run_actions, started,
          in_flight, error, in_transaction, open_blocks, modified_attrs, last_call>>

-----------------------------------------------------------------------------
(* Bounds *)

\* longest pair sequence handed to order_db_objects by the generic caller
MaxLen == 3

\* deepest nesting of transaction() blocks
MaxDepth == 2

\* longest list handed to insert, upsert, update or delete
MaxObjects == 2

-----------------------------------------------------------------------------
(* The instances a DBConnection is used with *)

\* two instances of a model with a primary key, one of a model without
Instances == {"u1", "u2", "n1"}

ClassOf(obj) == IF obj = "n1" THEN "Note" ELSE "User"

\* the model fields that are not the primary key
Attributes == {"name"}

NoCall ==
    [op |-> "none", listed |-> 0, open_blocks |-> 0, begun |-> 0, ended |-> 0,
     rolled_back |-> 0, outcome |-> "none", cleared |-> {}]

\* DBConnection.__init__ and freshly built instances
SessionIdle ==
    /\ in_transaction = FALSE
    /\ open_blocks = 0
    /\ modified_attrs = [obj \in Instances |-> {}]
    /\ last_call = NoCall

-----------------------------------------------------------------------------
(* Sequence helpers *)

Range(s) == {s[i] : i \in 1..Len(s)}

SeqsUpTo(S, n) == UNION {[1..k -> S] : k \in 0..n}

\* position of the first occurrence of x in s (0 when absent)
IndexOf(s, x) ==
    IF \E i \in 1..Len(s) : s[i] = x
    THEN CHOOSE i \in 1..Len(s) : s[i] = x /\ \A j \in 1..(i - 1) : s[j] # x
    ELSE 0

Reverse(s) == [i \in 1..Len(s) |-> s[Len(s) + 1 - i]]

\* stable removal of repeated elements, keeping first occurrences
RECURSIVE Dedup(_)
Dedup(s) ==
    IF s = <<>> THEN <<>>
    ELSE LET front == Dedup(SubSeq(s, 1, Len(s) - 1))
         IN  IF s[Len(s)] \in Range(front) THEN front ELSE Append(front, s[Len(s)])

RECURSIVE Flatten(_)
Flatten(ss) == IF ss = <<>> THEN <<>> ELSE Head(ss) \o Flatten(Tail(ss))

-----------------------------------------------------------------------------
(* Schema object model (iceaxe.schemas.db_stubs) *)

NoObject == [kind |-> "None"]
NoError  == [kind |-> "NoError", rep |-> ""]

Primitive(name) == [kind |-> "Primitive", name |-> name]

DBTypePointer(name) == [kind |-> "TypePointer", name |-> name]

DBColumnPointer(table_name, column_name) ==
    [kind |-> "ColumnPointer", table_name |-> table_name, column_name |-> column_name]

DBTable(table_name) == [kind |-> "Table", table_name |-> table_name]

DBColumn(table_name, column_name, column_type, column_is_list, nullable) ==
    [kind |-> "Column", table_name |-> table_name, column_name |-> column_name,
     column_type |-> column_type, column_is_list |-> column_is_list,
     nullable |-> nullable]

DBType(name, values, reference_columns) ==
    [kind |-> "Type", name |-> name, values |-> values,
     reference_columns |-> reference_columns]

ForeignKeyConstraint(target_table, target_columns) ==
    [kind |-> "ForeignKey", target_table |-> target_table,
     target_columns |-> target_columns]

CheckConstraint(check_condition) ==
    [kind |-> "Check", check_condition |-> check_condition]

DBConstraint(table_name, constraint_name, columns, constraint_type, foreign_key_constraint, check_constraint) ==
    [kind |-> "Constraint", table_name |-> table_name,
     constraint_name |-> constraint_name, columns |-> columns,
     constraint_type |-> constraint_type,
     foreign_key_constraint |-> foreign_key_constraint,
     check_constraint |-> check_constraint]

IsPointer(obj) == obj.kind \in {"TypePointer", "ColumnPointer"}

\* the identity key of an object or pointer
representation(obj) ==
    CASE obj.kind = "Table"         -> obj.table_name
      [] obj.kind = "Column"        -> obj.table_name \o "." \o obj.column_name
      [] obj.kind = "ColumnPointer" -> obj.table_name \o "." \o obj.column_name
      [] obj.kind = "Type"          -> obj.name
      [] obj.kind = "TypePointer"   -> obj.name
      [] obj.kind = "Constraint"    -> obj.table_name \o "." \o obj.constraint_name

MergeConflict == [kind |-> "MergeConflict"]

\* current.merge(other): union for Type, conflict for unequal others
merge(current, other) ==
    IF current.kind = "Type" /\ other.kind = "Type"
    THEN DBType(current.name, current.values \cup other.values,
                current.reference_columns \cup other.reference_columns)
    ELSE IF current = other THEN current ELSE MergeConflict

-----------------------------------------------------------------------------
(* DatabaseMemorySerializer.order_db_objects *)

EmptyMap == [r \in {} |-> NoObject]

\* the loop keeping the first object of a representation and skipping the rest
RECURSIVE ObjectsByName_KeepFirst(_, _)
ObjectsByName_KeepFirst(pairs, n) ==
    IF n = 0 THEN [conflict |-> "", map |-> EmptyMap]
    ELSE LET sofar == ObjectsByName_KeepFirst(pairs, n - 1)
             obj   == pairs[n][1]
             r     == representation(obj)
         IN  IF IsPointer(obj) \/ r \in DOMAIN sofar.map THEN sofar
             ELSE [conflict |-> "",
                   map |-> [x \in DOMAIN sofar.map \cup {r} |->
                              IF x = r THEN obj ELSE sofar.map[x]]]

\* lines 91-106: representation -> canonical object over the first n pairs
RECURSIVE ObjectsByName(_, _)
ObjectsByName(pairs, n) ==
    IF n = 0 THEN [conflict |-> "", map |-> EmptyMap]
    ELSE LET sofar == ObjectsByName(pairs, n - 1)
             obj   == pairs[n][1]
             r     == representation(obj)
         IN  IF sofar.conflict # "" \/ IsPointer(obj) THEN sofar
             ELSE IF r \in DOMAIN sofar.map
             THEN LET m == merge(sofar.map[r], obj)
                  IN  IF m = MergeConflict
                      THEN [conflict |-> r, map |-> sofar.map]
                      ELSE [conflict |-> "", map |-> [sofar.map EXCEPT ![r] = m]]
             ELSE [conflict |-> "",
                   map |-> [x \in DOMAIN sofar.map \cup {r} |->
                              IF x = r THEN obj ELSE sofar.map[x]]]

AllDependencies(pairs) == Flatten([i \in 1..Len(pairs) |-> pairs[i][2]])

\* the validation loop stopping one pair short
UnresolvedPointers_SkipLast(pairs, by_name) ==
    SelectSeq(AllDependencies(SubSeq(pairs, 1, Len(pairs) - 1)),
              LAMBDA dep : IsPointer(dep) /\ representation(dep) \notin DOMAIN by_name)

\* lines 110-116: the pointers that no full object defines, in scan order
UnresolvedPointers(pairs, by_name) ==
    SelectSeq(AllDependencies(pairs),
              LAMBDA dep : IsPointer(dep) /\ representation(dep) \notin DOMAIN by_name)

\* lines 119-124: every lookup db_objects_by_name[...] of the comprehension
GraphLookups(pairs) ==
    Flatten([i \in 1..Len(pairs) |-> <<pairs[i][1]>> \o pairs[i][2]])

MissingLookups(pairs, by_name) ==
    SelectSeq(GraphLookups(pairs),
              LAMBDA o : representation(o) \notin DOMAIN by_name)

LastPair(pairs, r) ==
    pairs[CHOOSE i \in 1..Len(pairs) :
            /\ representation(pairs[i][1]) = r
            /\ \A j \in (i + 1)..Len(pairs) : representation(pairs[j][1]) # r]

FirstPair(pairs, r) ==
    pairs[CHOOSE i \in 1..Len(pairs) :
            /\ representation(pairs[i][1]) = r
            /\ \A j \in 1..(i - 1) : representation(pairs[j][1]) # r]

\* the comprehension keeping the dependencies of a key's first pair
GraphEdges_FirstPair(pairs, by_name) ==
    LET keys == Dedup([i \in 1..Len(pairs) |-> by_name[representation(pairs[i][1])]])
    IN  [keys  |-> keys,
         edges |-> [k \in Range(keys) |->
                      LET deps == FirstPair(pairs, representation(k))[2]
                      IN  [j \in 1..Len(deps) |-> by_name[representation(deps[j])]]]]

\* lines 119-124: canonical object -> canonical dependencies; a dict keeps the
\* position of a key's first insertion and the value of its last one
GraphEdges(pairs, by_name) ==
    LET keys == Dedup([i \in 1..Len(pairs) |-> by_name[representation(pairs[i][1])]])
    IN  [keys  |-> keys,
         edges |-> [k \in Range(keys) |->
                      LET deps == LastPair(pairs, representation(k))[2]
                      IN  [j \in 1..Len(deps) |-> by_name[representation(deps[j])]]]]

\* ActionTopologicalSorter.sort: Kahn's algorithm with a FIFO queue, ties in
\* the insertion order of the graph
RECURSIVE KahnLoop(_, _, _)
KahnLoop(graph, queue, result) ==
    IF queue = <<>> THEN result
    ELSE LET node  == Head(queue)
             done  == Range(result) \cup {node}
             ready == SelectSeq(graph.keys,
                         LAMBDA k : /\ k \notin done
                                    /\ node \in Range(graph.edges[k])
                                    /\ Range(graph.edges[k]) \subseteq done)
         IN  KahnLoop(graph, Tail(queue) \o ready, Append(result, node))

TopologicalSort(graph) ==
    KahnLoop(graph, SelectSeq(graph.keys, LAMBDA k : graph.edges[k] = <<>>), <<>>)

OrderError(kind, rep) == [status |-> kind, rep |-> rep, ranks |-> EmptyMap]

\* the enumeration counting from one
RankMap_OneBased(order) == [obj \in Range(order) |-> IndexOf(order, obj)]

\* line 128: {obj: i for i, obj in enumerate(ts.sort())}
RankMap(order) == [obj \in Range(order) |-> IndexOf(order, obj) - 1]

order_db_objects(pairs) ==
    LET named == ObjectsByName(pairs, Len(pairs))
        by_name == named.map
    IN  IF named.conflict # "" THEN OrderError("MergeError", named.conflict)
        ELSE IF UnresolvedPointers(pairs, by_name) # <<>>
        THEN OrderError("ValueError",
                        representation(Head(UnresolvedPointers(pairs, by_name))))
        ELSE IF MissingLookups(pairs, by_name) # <<>>
        THEN OrderError("KeyError",
                        representation(Head(MissingLookups(pairs, by_name))))
        ELSE LET graph == GraphEdges(pairs, by_name)
                 order == TopologicalSort(graph)
             IN  IF Len(order) # Len(graph.keys)
                 THEN OrderError("CycleError", "")
                 ELSE [status |-> "ok", rep |-> "", ranks |-> RankMap(order)]

-----------------------------------------------------------------------------
(* A caller of order_db_objects with arbitrary small inputs *)

PoolTable  == DBTable("t1")
PoolColumn == {DBColumn("t1", "v", Primitive("VARCHAR"), FALSE, n) : n \in BOOLEAN}
PoolType   == DBType("e1", {"A"}, {<<"t1", "v">>})
\* the same type as the field of another table yields it
PoolTypeOther == DBType("e1", {"A", "B"}, {<<"t2", "v">>})

PoolObjects == {PoolTable, PoolType} \cup PoolColumn

\* the ways a dependency on the object of a representation can be written:
\* not at all, as the full object, or as a pointer where the kind has one
DependencyForms(r) ==
    CASE r = "t1"   -> {<<>>, <<PoolTable>>}
      [] r = "t1.v" -> {<<>>, <<DBColumn("t1", "v", Primitive("VARCHAR"), FALSE, FALSE)>>,
                        <<DBColumnPointer("t1", "v")>>}
      [] r = "e1"   -> {<<>>, <<PoolType>>, <<DBTypePointer("e1")>>}

\* dependency lists are kept in representation order: "e1" < "t1" < "t1.v";
\* a table is given no dependencies
DependencyLists(node) ==
    LET others(r) == IF representation(node) = r \/ node.kind = "Table"
                     THEN {<<>>} ELSE DependencyForms(r)
    IN  {a \o b \o c : a \in others("e1"), b \in others("t1"), c \in others("t1.v")}

PoolPairs ==
    {<<node, deps>> : node \in PoolObjects, deps \in
        UNION {DependencyLists(n) : n \in PoolObjects}}

GenericPairs ==
    {p \in PoolPairs : p[2] \in DependencyLists(p[1])}
    \cup {<<DBColumnPointer("t1", "v"), <<>> >>, <<DBTypePointer("e1"), <<>> >>}
    \cup {<<PoolTypeOther, <<>> >>, <<PoolTypeOther, <<PoolTable>> >>}

GenericInputs == SeqsUpTo(GenericPairs, MaxLen)

NoResult == [status |-> "none", rep |-> "", ranks |-> EmptyMap]

InitOrder ==
    /\ pc = "order_call"
    /\ db_objects \in GenericInputs
    /\ order_result = NoResult
    /\ models = <<>> /\ all_models = <<>>
    /\ prev_pairs = <<>> /\ next_pairs = <<>>
    /\ previous = <<>> /\ previous_ordering = EmptyMap
    /\ next = <<>> /\ next_ordering = EmptyMap
    /\ previous_by_name = EmptyMap /\ next_by_name = EmptyMap
    /\ prev_sorted = <<>> /\ next_sorted = <<>>
    /\ to_delete = <<>> /\ idx = 0
    /\ dry_run_actions = <<>>
    /\ started = <<>> /\ in_flight = {}
    /\ error = NoError
    /\ SessionIdle

PlanUnchanged ==
    UNCHANGED <<models, all_models, prev_pairs, next_pairs, previous, previous_ordering, next,
                next_ordering, previous_by_name, next_by_name, prev_sorted,
                next_sorted, to_delete, idx, dry_run_actions, started,
                in_flight, in_transaction, open_blocks, modified_attrs, last_call>>

\* order_db_objects returns the rank map
OrderReturn ==
    /\ pc = "order_call"
    /\ order_db_objects(db_objects).status = "ok"
    /\ order_result' = order_db_objects(db_objects)
    /\ pc' = "order_done"
    /\ UNCHANGED <<db_objects, error>>
    /\ PlanUnchanged

\* order_db_objects raises
OrderRaise ==
    /\ pc = "order_call"
    /\ order_db_objects(db_objects).status # "ok"
    /\ order_result' = order_db_objects(db_objects)
    /\ error' = [kind |-> order_db_objects(db_objects).status,
                 rep  |-> order_db_objects(db_objects).rep]
    /\ pc' = "order_failed"
    /\ UNCHANGED db_objects
    /\ PlanUnchanged

NextOrder == OrderReturn \/ OrderRaise

SpecOrder == InitOrder /\ [][NextOrder]_vars

-----------------------------------------------------------------------------
(* Properties of order_db_objects *)

Returned == pc = "order_done"
Raised   == pc = "order_failed"

\* representations defined by a full (non-pointer) object of the input
DefinedReps(pairs) ==
    {representation(pairs[i][1]) : i \in {j \in 1..Len(pairs) : ~IsPointer(pairs[j][1])}}

\* the rank of the canonical object of a representation
RankOf(ranks, r) == ranks[CHOOSE obj \in DOMAIN ranks : representation(obj) = r]

\* the pairs whose dependency list the graph keeps: the last of each representation
KeptPairs(pairs) ==
    {i \in 1..Len(pairs) :
        \A j \in (i + 1)..Len(pairs) :
            representation(pairs[j][1]) # representation(pairs[i][1])}

KeptEdges(pairs) ==
    UNION {{<<representation(pairs[i][1]), representation(pairs[i][2][k])>> :
               k \in 1..Len(pairs[i][2])} : i \in KeptPairs(pairs)}

RECURSIVE TransitiveClosure(_)
TransitiveClosure(E) ==
    LET step == E \cup {<<a[1], b[2]>> : a \in E, b \in {c \in E : TRUE}}
        next_E == E \cup {e \in step : \E a \in E, b \in E :
                              a[2] = b[1] /\ e = <<a[1], b[2]>>}
    IN  IF next_E = E THEN E ELSE TransitiveClosure(next_E)

Acyclic(E) == \A e \in TransitiveClosure(E) : e[1] # e[2]

\* every dependency names a representation that a full object of the input defines
AllResolve(pairs) ==
    \A i \in 1..Len(pairs) : \A k \in 1..Len(pairs[i][2]) :
        representation(pairs[i][2][k]) \in DefinedReps(pairs)

\* no node is a pointer and no two full objects of one representation conflict
WellFormed(pairs) ==
    /\ \A i \in 1..Len(pairs) : ~IsPointer(pairs[i][1])
    /\ ObjectsByName(pairs, Len(pairs)).conflict = ""

UnresolvedDependencies(pairs) ==
    {d \in Range(AllDependencies(pairs)) : representation(d) \notin DefinedReps(pairs)}

\* C10 as stated: whenever some dependency does not resolve, order_db_objects
\* fails with the configuration error naming a missing representation.
C10_AnyUnresolvedIsConfigurationError ==
    (pc # "order_call" /\ UnresolvedDependencies(db_objects) # {})
        => /\ Raised
           /\ error.kind = "ValueError"
           /\ error.rep \in {representation(d) : d \in UnresolvedDependencies(db_objects)}

\* C10 amended: an input with an unresolved dependency never yields a rank
\* map; when the duplicates merge without conflict, an unresolved pointer
\* dependency raises the configuration error naming the first unresolved
\* pointer, and unresolved full-object dependencies alone raise a lookup error.
C10_UnresolvedNeverRanked ==
    LET unresolved == UnresolvedDependencies(db_objects)
        pointers   == SelectSeq(AllDependencies(db_objects),
                                LAMBDA d : IsPointer(d) /\ d \in unresolved)
        mergeable  == ObjectsByName(db_objects, Len(db_objects)).conflict = ""
    IN  (pc # "order_call" /\ unresolved # {}) =>
           /\ Raised
           /\ order_result.status # "ok"
           /\ (mergeable /\ pointers # <<>>) =>
                 /\ error.kind = "ValueError"
                 /\ error.rep = representation(Head(pointers))
           /\ (mergeable /\ pointers = <<>>) => error.kind = "KeyError"

\* the configuration error raised for an unresolved pointer in the last pair
C10_Witness ==
    /\ Raised
    /\ error.kind = "ValueError"
    /\ Len(db_objects) = 3
    /\ \E d \in Range(db_objects[3][2]) :
          IsPointer(d) /\ d \in UnresolvedDependencies(db_objects)
    /\ \A i \in 1..2 : \A d \in Range(db_objects[i][2]) :
          d \notin UnresolvedDependencies(db_objects)

\* the objects listed under a representation, pointers left out
Occurrences(pairs, r) ==
    {pairs[i][1] : i \in {k \in 1..Len(pairs) :
                            /\ ~IsPointer(pairs[k][1])
                            /\ representation(pairs[k][1]) = r}}

\* two listings of one Table, Column or Constraint that differ in content
Conflicting(pairs) ==
    \E r \in DefinedReps(pairs) :
       \E a, b \in Occurrences(pairs, r) : a # b /\ (a.kind # "Type" \/ b.kind # "Type")

\* C11: every later occurrence of a representation is merged into the
\* canonical object (a Type accumulates the union of values and of
\* reference_columns; other kinds must agree); two differing listings of a
\* Table, Column or Constraint make order_db_objects fail without a rank map.
C11_MergeOrConflict ==
    pc # "order_call" =>
       /\ Conflicting(db_objects) =>
             /\ Raised
             /\ order_result.status = "MergeError"
             /\ order_result.ranks = EmptyMap
       /\ Returned =>
             \A obj \in DOMAIN order_result.ranks :
                LET listed == Occurrences(db_objects, representation(obj))
                IN  /\ listed # {}
                    /\ IF obj.kind = "Type"
                       THEN /\ obj.values = UNION {o.values : o \in listed}
                            /\ obj.reference_columns =
                                  UNION {o.reference_columns : o \in listed}
                       ELSE listed = {obj}

\* a rank map whose Type holds what two different listings contributed
C11_Witness ==
    /\ Returned
    /\ PoolType \in Occurrences(db_objects, "e1")
    /\ PoolTypeOther \in Occurrences(db_objects, "e1")
    /\ \E obj \in DOMAIN order_result.ranks :
          /\ obj.kind = "Type"
          /\ obj.values = {"A", "B"}
          /\ obj.reference_columns = {<<"t1", "v">>, <<"t2", "v">>}

-----------------------------------------------------------------------------
(* Declarations handed to the extractor (iceaxe.base, iceaxe.field) *)

\* an annotation: its classification, its name, list-ness and Optional-ness
Annotation(category, name, is_list, nullable) ==
    [category |-> category, name |-> name, is_list |-> is_list,
     nullable |-> nullable]

\* DBFieldInfo with the Field() defaults
DBFieldInfo(annotation) ==
    [annotation |-> annotation, primary_key |-> FALSE,
     postgres_config |-> [kind |-> "none", timezone |-> FALSE],
     foreign_key |-> "", unique |-> FALSE, index |-> FALSE,
     check_expression |-> "", is_json |-> FALSE]

INTERNAL_TABLE_FIELDS == {"modified_attrs"}

\* TableBase.modified_attrs, a field of every model
ModifiedAttrsField ==
    <<"modified_attrs", DBFieldInfo(Annotation("json", "dict", FALSE, FALSE))>>

\* a TableBase subclass: class name, table_name ("" when undefined),
\* model_fields in declaration order, table_args (<<>> when undefined)
Model(cls_name, table_name, fields, table_args) ==
    [cls_name |-> cls_name, table_name |-> table_name,
     model_fields |-> <<ModifiedAttrsField>> \o fields, table_args |-> table_args]

\* str.lower() on the class names in use
Lower(name) ==
    CASE name = "T1" -> "t1"
      [] name = "T2" -> "t2"
      [] name = "E1" -> "e1"
      [] name = "E2" -> "e2"
      [] OTHER -> name

\* the member names of the Enum classes in use
EnumMembers(name) ==
    CASE name = "E1" -> {"A"}
      [] name = "E2" -> {"A", "B"}
      [] OTHER -> {}

get_table_name(table) ==
    IF table.table_name = "" THEN Lower(table.cls_name) ELSE table.table_name

\* the strings that are compared by sorted(), in ascending order
Lexicon ==
    <<"e1", "e2", "id", "j", "k", "ref", "t1", "t1.id", "t1.j", "t1.k", "t1.ref", "t1.t1_pkey",
      "t1.t1_ref_fkey", "t1.v", "t1.w", "t1.x", "t2", "t2.id", "t2.t2_pkey", "t2.v", "v", "w", "x">>

StrLess(a, b) == IndexOf(Lexicon, a) < IndexOf(Lexicon, b)

\* sorted(S) for a set of strings
RECURSIVE SortedStrings(_)
SortedStrings(S) ==
    IF S = {} THEN <<>>
    ELSE LET least == CHOOSE x \in S : \A y \in S : ~StrLess(y, x)
         IN  <<least>> \o SortedStrings(S \ {least})

\* the hash seeds of the Python process: the hashes of strings, and with them
\* the order in which a set of objects is iterated, change from one process
\* to the next
HashSeeds == {0, 1}

\* list(S): two of the orders in which a set is iterated, one for each seed
RECURSIVE SetIteration(_, _)
SetIteration(S, hash_seed) ==
    IF S = {} THEN <<>>
    ELSE LET some == CHOOSE x \in S : TRUE
         IN  IF hash_seed = 0
             THEN <<some>> \o SetIteration(S \ {some}, hash_seed)
             ELSE SetIteration(S \ {some}, hash_seed) \o <<some>>

\* sorted(objects, key=lambda x: x.representation()), a stable sort
RECURSIVE SortedSequence(_)
SortedSequence(objects) ==
    IF objects = <<>> THEN <<>>
    ELSE LET i == CHOOSE i \in 1..Len(objects) :
                    /\ \A j \in 1..Len(objects) :
                          ~StrLess(representation(objects[j]), representation(objects[i]))
                    /\ \A j \in 1..(i - 1) :
                          StrLess(representation(objects[i]), representation(objects[j]))
         IN  <<objects[i]>> \o
             SortedSequence(SubSeq(objects, 1, i - 1)
                            \o SubSeq(objects, i + 1, Len(objects)))

\* sorted(set(...), key=lambda x: x.representation()): objects of one
\* representation stay in the order in which the set is iterated
SortedByRepresentation(S, hash_seed) == SortedSequence(SetIteration(S, hash_seed))

\* a local variable: value is computed once and handed to F
Bind(value, F(_)) == CHOOSE result \in {F(v) : v \in {value}} : TRUE

\* "_".join(names)
RECURSIVE JoinNames(_)
JoinNames(names) ==
    IF names = <<>> THEN ""
    ELSE IF Len(names) = 1 THEN names[1]
    ELSE names[1] \o "_" \o JoinNames(Tail(names))

\* DBConstraint.new_constraint_name
new_constraint_name(table_name, columns, constraint_type) ==
    LET elements == IF constraint_type = "PRIMARY_KEY" THEN <<table_name>>
                    ELSE <<table_name>> \o SortedStrings(Range(columns))
        suffix == CASE constraint_type = "PRIMARY_KEY" -> "pkey"
                    [] constraint_type = "FOREIGN_KEY" -> "fkey"
                    [] constraint_type = "UNIQUE"      -> "unique"
                    [] constraint_type = "INDEX"       -> "idx"
                    [] constraint_type = "CHECK"       -> "check"
    IN  JoinNames(elements) \o "_" \o suffix

-----------------------------------------------------------------------------
(* DatabaseHandler: the declarative extractor *)

NodeDefinition(node, dependencies, force_no_dependencies) ==
    [kind |-> "NodeDefinition", node |-> node, dependencies |-> dependencies,
     force_no_dependencies |-> force_no_dependencies]

\* lines 498-514
format_dependencies(dependencies, hash_seed) ==
    Bind(dependencies,
         LAMBDA values :
            SortedByRepresentation(Range(
                Flatten([i \in 1..Len(values) |->
                            IF values[i].kind = "NodeDefinition"
                            THEN <<values[i].node>> \o values[i].dependencies
                            ELSE <<values[i]>>])), hash_seed))

\* lines 516-539: child is a DBObject or a NodeDefinition
yield_nodes(child, dependencies, force_no_dependencies, hash_seed) ==
    Bind(<<child, dependencies>>,
         LAMBDA args :
            IF args[1].kind = "NodeDefinition"
            THEN <<NodeDefinition(
                       args[1].node,
                       format_dependencies(
                           (IF ~args[1].force_no_dependencies THEN args[2] ELSE <<>>)
                           \o args[1].dependencies, hash_seed),
                       force_no_dependencies)>>
            ELSE <<NodeDefinition(args[1], format_dependencies(args[2], hash_seed),
                                  force_no_dependencies)>>)

\* the nodes of a generator do not get the dependencies of the caller
yield_nodes_generator_NoAmbient(children, dependencies, hash_seed) ==
    Flatten([i \in 1..Len(children) |-> yield_nodes(children[i], <<>>, FALSE, hash_seed)])

\* lines 540-542: child is a generator, given by what it yields
yield_nodes_generator(children, dependencies, hash_seed) ==
    Bind(<<children, dependencies>>,
         LAMBDA args :
            Flatten([i \in 1..Len(args[1]) |-> yield_nodes(args[1][i], args[2], FALSE, hash_seed)]))

Nodes(nodes)   == [error |-> "", nodes |-> nodes]
Failure(error_) == [error |-> error_, nodes |-> <<>>]

TypeDeclarationResponse(primitive_type, custom_type, is_list) ==
    [error |-> "", primitive_type |-> primitive_type, custom_type |-> custom_type,
     is_list |-> is_list]

\* a type that cannot be classified is stored as JSON
TypeFailure_AsJson(error_) ==
    [error |-> "", primitive_type |-> "JSON", custom_type |-> NoObject,
     is_list |-> FALSE]

TypeFailure(error_) ==
    [error |-> error_, primitive_type |-> "", custom_type |-> NoObject,
     is_list |-> FALSE]

\* lines 225-233
python_to_sql ==
    [t \in {"int", "float", "str", "bool", "bytes", "UUID", "Any"} |->
        CASE t = "int"   -> "INTEGER"
          [] t = "float" -> "DOUBLE_PRECISION"
          [] t = "str"   -> "VARCHAR"
          [] t = "bool"  -> "BOOLEAN"
          [] t = "bytes" -> "BYTEA"
          [] t = "UUID"  -> "UUID"
          [] t = "Any"   -> "JSON"]

\* lines 310-384
handle_column_type(key, info, table) ==
    LET annotation == info.annotation
        config     == info.postgres_config
    IN  IF annotation.category = "none"
        THEN TypeFailure("Annotation must be provided")
        ELSE IF annotation.category = "enum"
        THEN TypeDeclarationResponse("",
                 DBType(Lower(annotation.name), EnumMembers(annotation.name),
                        {<<get_table_name(table), key>>}),
                 FALSE)
        ELSE IF annotation.category = "primitive"
        THEN IF annotation.name \in DOMAIN python_to_sql
             THEN TypeDeclarationResponse(python_to_sql[annotation.name], NoObject,
                                          annotation.is_list)
             ELSE TypeFailure("Unsupported column type")
        ELSE IF annotation.category = "date"
        THEN CASE annotation.name = "datetime" ->
                    TypeDeclarationResponse(
                        IF config.kind = "PostgresDateTime" /\ config.timezone
                        THEN "TIMESTAMP_WITH_TIME_ZONE" ELSE "TIMESTAMP",
                        NoObject, FALSE)
               [] annotation.name = "date" ->
                    TypeDeclarationResponse("DATE", NoObject, FALSE)
               [] annotation.name = "time" ->
                    TypeDeclarationResponse(
                        IF config.kind = "PostgresTime" /\ config.timezone
                        THEN "TIME_WITH_TIME_ZONE" ELSE "TIME",
                        NoObject, FALSE)
               [] annotation.name = "timedelta" ->
                    TypeDeclarationResponse("INTERVAL", NoObject, FALSE)
               [] OTHER -> TypeFailure("Unsupported date type")
        ELSE IF annotation.category = "json"
        THEN IF info.is_json
             THEN TypeDeclarationResponse("JSON", NoObject, FALSE)
             ELSE TypeFailure("JSON fields must have Field(is_json=True) specified")
        ELSE TypeFailure("Unsupported column type")

\* lines 274-308
convert_column(key, info, table, hash_seed) ==
    IF info.annotation.category = "none"
    THEN Failure("Annotation must be provided")
    ELSE LET is_nullable == info.annotation.nullable
             with_type(db_annotation, dependencies) ==
                 Nodes(dependencies \o
                       yield_nodes(
                           DBColumn(get_table_name(table), key,
                                    DBTypePointer(db_annotation.custom_type.name),
                                    db_annotation.is_list, is_nullable),
                           dependencies, FALSE, hash_seed))
         IN  Bind(handle_column_type(key, info, table),
                  LAMBDA db_annotation :
                     IF db_annotation.error # "" THEN Failure(db_annotation.error)
                     ELSE IF db_annotation.custom_type # NoObject
                     THEN Bind(yield_nodes(db_annotation.custom_type, <<>>, TRUE, hash_seed),
                               LAMBDA dependencies :
                                  with_type(db_annotation, dependencies))
                     ELSE IF db_annotation.primitive_type # ""
                     THEN Nodes(yield_nodes(
                                    DBColumn(get_table_name(table), key,
                                             Primitive(db_annotation.primitive_type),
                                             db_annotation.is_list, is_nullable),
                                    <<>>, FALSE, hash_seed))
                     ELSE Failure("Column type must be provided"))

\* lines 386-434
handle_single_constraints(key, info, table, hash_seed) ==
    LET build_constraint(constraint_type, foreign_key_constraint, check_constraint) ==
            DBConstraint(get_table_name(table),
                         new_constraint_name(get_table_name(table), <<key>>,
                                             constraint_type),
                         {key}, constraint_type, foreign_key_constraint,
                         check_constraint)
        \* "table.column".rsplit(".", 1) on the targets in use
        target_table  == CASE info.foreign_key = "t2.id" -> "t2"
                           [] info.foreign_key = "t1.id" -> "t1"
                           [] OTHER -> ""
        target_column == CASE info.foreign_key \in {"t1.id", "t2.id"} -> "id"
                           [] OTHER -> ""
    IN  (IF info.unique
         THEN yield_nodes(build_constraint("UNIQUE", NoObject, NoObject), <<>>, FALSE, hash_seed)
         ELSE <<>>)
        \o
        (IF info.foreign_key # ""
         THEN yield_nodes(build_constraint("FOREIGN_KEY",
                              ForeignKeyConstraint(target_table, {target_column}),
                              NoObject), <<>>, FALSE, hash_seed)
         ELSE <<>>)
        \o
        (IF info.index
         THEN yield_nodes(build_constraint("INDEX", NoObject, NoObject), <<>>, FALSE, hash_seed)
         ELSE <<>>)
        \o
        (IF info.check_expression # ""
         THEN yield_nodes(build_constraint("CHECK", NoObject,
                              CheckConstraint(info.check_expression)), <<>>, FALSE, hash_seed)
         ELSE <<>>)

\* a descriptor that is no UniqueConstraint is taken for an IndexConstraint
handle_multiple_constraints_Lenient(constraint, table, hash_seed) ==
    LET constraint_type ==
            IF constraint.kind = "UniqueConstraint" THEN "UNIQUE" ELSE "INDEX"
    IN  Nodes(yield_nodes(
            DBConstraint(get_table_name(table),
                         new_constraint_name(get_table_name(table),
                                             constraint.columns, constraint_type),
                         Range(constraint.columns), constraint_type,
                         NoObject, NoObject),
            <<>>, FALSE, hash_seed))

\* lines 436-462: constraint is [kind, columns]
handle_multiple_constraints(constraint, table, hash_seed) ==
    IF constraint.kind \in {"UniqueConstraint", "IndexConstraint"}
    THEN LET constraint_type ==
                 IF constraint.kind = "UniqueConstraint" THEN "UNIQUE" ELSE "INDEX"
         IN  Nodes(yield_nodes(
                 DBConstraint(get_table_name(table),
                              new_constraint_name(get_table_name(table),
                                                  constraint.columns, constraint_type),
                              Range(constraint.columns), constraint_type,
                              NoObject, NoObject),
                 <<>>, FALSE, hash_seed))
    ELSE Failure("Unsupported constraint type")

\* one constraint for each primary-key field
handle_primary_keys_PerKey(keys, table, hash_seed) ==
    Flatten([i \in 1..Len(keys) |->
                yield_nodes(
                    DBConstraint(get_table_name(table),
                                 new_constraint_name(get_table_name(table),
                                                     <<keys[i][1]>>, "PRIMARY_KEY"),
                                 {keys[i][1]}, "PRIMARY_KEY", NoObject, NoObject),
                    <<>>, FALSE, hash_seed)])

\* lines 464-482: keys is the list of (key, info) of the primary-key fields
handle_primary_keys(keys, table, hash_seed) ==
    IF keys = <<>> THEN <<>>
    ELSE LET columns == [i \in 1..Len(keys) |-> keys[i][1]]
         IN  yield_nodes(
                 DBConstraint(get_table_name(table),
                              new_constraint_name(get_table_name(table), columns,
                                                  "PRIMARY_KEY"),
                              Range(columns), "PRIMARY_KEY", NoObject, NoObject),
                 <<>>, FALSE, hash_seed)

\* lines 246-256: the column loop over the first n fields
RECURSIVE ColumnNodes(_, _, _, _)
ColumnNodes(table, table_nodes, n, hash_seed) ==
    IF n = 0 THEN Nodes(<<>>)
    ELSE LET sofar      == ColumnNodes(table, table_nodes, n - 1, hash_seed)
             field_name == table.model_fields[n][1]
             field      == table.model_fields[n][2]
         IN  IF sofar.error # "" \/ field_name \in INTERNAL_TABLE_FIELDS THEN sofar
             ELSE Bind(convert_column(field_name, field, table, hash_seed),
                       LAMBDA column :
                          IF column.error # ""
                          THEN [error |-> column.error, nodes |-> sofar.nodes]
                          ELSE Nodes(sofar.nodes \o
                                     yield_nodes_generator(column.nodes, table_nodes, hash_seed)))

\* lines 267-272: the table_args loop over the first n constraints
RECURSIVE TableArgNodes(_, _, _, _)
TableArgNodes(table, all_column_nodes, n, hash_seed) ==
    IF n = 0 THEN Nodes(<<>>)
    ELSE LET sofar == TableArgNodes(table, all_column_nodes, n - 1, hash_seed)
         IN  IF sofar.error # "" THEN sofar
             ELSE Bind(handle_multiple_constraints(table.table_args[n], table, hash_seed),
                       LAMBDA constraint :
                          IF constraint.error # ""
                          THEN [error |-> constraint.error, nodes |-> sofar.nodes]
                          ELSE Nodes(sofar.nodes \o
                                     yield_nodes_generator(constraint.nodes,
                                                           all_column_nodes, hash_seed)))

\* lines 240-272: the nodes yielded, and the error raised after them, if any
convert_table(table, hash_seed) ==
    LET primary_keys == SelectSeq(table.model_fields, LAMBDA f : f[2].primary_key)
        after_columns(table_nodes, columns) ==
            IF columns.error # ""
            THEN [error |-> columns.error, nodes |-> table_nodes \o columns.nodes]
            ELSE Bind(TableArgNodes(table, columns.nodes, Len(table.table_args), hash_seed),
                      LAMBDA constraints :
                         [error |-> constraints.error,
                          nodes |-> table_nodes \o columns.nodes
                                    \o yield_nodes_generator(
                                           handle_primary_keys(primary_keys, table, hash_seed),
                                           columns.nodes, hash_seed)
                                    \o constraints.nodes])
    IN  Bind(yield_nodes(DBTable(get_table_name(table)), <<>>, FALSE, hash_seed),
             LAMBDA table_nodes :
                Bind(ColumnNodes(table, table_nodes, Len(table.model_fields), hash_seed),
                     LAMBDA columns : after_columns(table_nodes, columns)))

\* sorted(tables, key=lambda model: model.get_table_name()), a stable sort
RECURSIVE SortedTables(_)
SortedTables(tables) ==
    IF tables = <<>> THEN <<>>
    ELSE LET i == CHOOSE i \in 1..Len(tables) :
                    /\ \A j \in 1..Len(tables) :
                          ~StrLess(get_table_name(tables[j]), get_table_name(tables[i]))
                    /\ \A j \in 1..(i - 1) :
                          StrLess(get_table_name(tables[i]), get_table_name(tables[j]))
         IN  <<tables[i]>> \o
             SortedTables(SubSeq(tables, 1, i - 1) \o SubSeq(tables, i + 1, Len(tables)))

\* lines 235-238: the (node, dependencies) pairs yielded, and the error raised
\* after them, if any
RECURSIVE ConvertSorted(_, _)
ConvertSorted(sorted_tables, hash_seed) ==
    IF sorted_tables = <<>> THEN [error |-> "", pairs |-> <<>>]
    ELSE LET rest == ConvertSorted(Tail(sorted_tables), hash_seed)
         IN  Bind(convert_table(Head(sorted_tables), hash_seed),
                  LAMBDA first :
                     [error |-> IF first.error # "" THEN first.error ELSE rest.error,
                      pairs |-> [i \in 1..Len(first.nodes) |->
                                    <<first.nodes[i].node,
                                      first.nodes[i].dependencies>>]
                                \o (IF first.error # "" THEN <<>> ELSE rest.pairs)])

\* a type is yielded once, for the first field that uses it
convert_TypeOnce(tables, hash_seed) ==
    Bind(ConvertSorted(SortedTables(tables), hash_seed),
         LAMBDA converted :
            [error |-> converted.error,
             pairs |-> SelectSeq(
                           [i \in 1..Len(converted.pairs) |->
                               IF /\ converted.pairs[i][1].kind = "Type"
                                  /\ \E j \in 1..(i - 1) :
                                        /\ converted.pairs[j][1].kind = "Type"
                                        /\ converted.pairs[j][1].name =
                                              converted.pairs[i][1].name
                               THEN <<NoObject, <<>> >>
                               ELSE converted.pairs[i]],
                           LAMBDA pair : pair[1] # NoObject)])

convert(tables, hash_seed) ==
    Bind(SortedTables(tables), LAMBDA sorted_tables : ConvertSorted(sorted_tables, hash_seed))

\* DatabaseMemorySerializer.delegate, lines 69-77
delegate(tables, hash_seed) == convert(tables, hash_seed)

-----------------------------------------------------------------------------
(* DatabaseSerializer.get_objects: the live schema introspector, by the      *)
(* (object, dependencies) pairs it reports for a database that holds the     *)
(* given tables                                                              *)

UserFields(table) ==
    SelectSeq(table.model_fields, LAMBDA f : f[1] \notin INTERNAL_TABLE_FIELDS)

\* every (table, column) of the database whose column is of the named type
ReferenceColumns(tables, type_name) ==
    UNION {{<<get_table_name(tables[i]), UserFields(tables[i])[k][1]>> :
               k \in {j \in 1..Len(UserFields(tables[i])) :
                        /\ UserFields(tables[i])[j][2].annotation.category = "enum"
                        /\ Lower(UserFields(tables[i])[j][2].annotation.name) = type_name}} :
           i \in 1..Len(tables)}

\* the pairs reported for one column: its type, if custom, and the column
IntrospectColumn(tables, table, field) ==
    LET table_name == get_table_name(table)
        annotation == field[2].annotation
        db_type    == DBType(Lower(annotation.name), EnumMembers(annotation.name),
                             ReferenceColumns(tables, Lower(annotation.name)))
        declared   == handle_column_type(field[1], field[2], table)
    IN  IF annotation.category = "enum"
        THEN << <<db_type, <<DBTable(table_name)>> >>,
                <<DBColumn(table_name, field[1], DBTypePointer(db_type.name), FALSE,
                           annotation.nullable),
                  <<db_type, DBTable(table_name)>> >> >>
        ELSE << <<DBColumn(table_name, field[1], Primitive(declared.primitive_type),
                           declared.is_list, annotation.nullable),
                  <<DBTable(table_name)>> >> >>

\* the pairs reported for the constraints of one table
IntrospectConstraints(table) ==
    LET table_name   == get_table_name(table)
        primary_keys == SelectSeq(UserFields(table), LAMBDA f : f[2].primary_key)
        foreign_keys == SelectSeq(UserFields(table), LAMBDA f : f[2].foreign_key # "")
        pointers(fields) ==
            [i \in 1..Len(fields) |-> DBColumnPointer(table_name, fields[i][1])]
    IN  (IF primary_keys = <<>> THEN <<>>
         ELSE << <<handle_primary_keys(primary_keys, table, 0)[1].node,
                   pointers(primary_keys) \o <<DBTable(table_name)>> >> >>)
        \o
        [i \in 1..Len(foreign_keys) |->
            <<handle_single_constraints(foreign_keys[i][1],
                  [DBFieldInfo(foreign_keys[i][2].annotation) EXCEPT
                      !.foreign_key = foreign_keys[i][2].foreign_key],
                  table, 0)[1].node,
              <<DBColumnPointer(table_name, foreign_keys[i][1]), DBTable(table_name)>> >>]

IntrospectTable(tables, table) ==
    << <<DBTable(get_table_name(table)), <<>> >> >>
    \o Flatten([k \in 1..Len(UserFields(table)) |->
                   IntrospectColumn(tables, table, UserFields(table)[k])])
    \o IntrospectConstraints(table)

\* the pairs come in no particular order: as listed, or the other way round
get_objects(tables, reversed) ==
    LET listed == Flatten([i \in 1..Len(tables) |-> IntrospectTable(tables, tables[i])])
    IN  IF reversed THEN Reverse(listed) ELSE listed

-----------------------------------------------------------------------------
(* DatabaseMemorySerializer.build_actions *)

Representations(objects) == [i \in 1..Len(objects) |-> representation(objects[i])]

\* every occurrence of a representation gets a key of its own
ByName_KeepDuplicates(objects) ==
    [keys |-> Representations(objects),
     map  |-> [r \in Range(Representations(objects)) |->
                  objects[CHOOSE i \in 1..Len(objects) :
                             /\ representation(objects[i]) = r
                             /\ \A j \in (i + 1)..Len(objects) :
                                   representation(objects[j]) # r]]]

\* {obj.representation(): obj for obj in objects}: a key stays where it was
\* first inserted and holds the value inserted last
ByName(objects) ==
    [keys |-> Dedup(Representations(objects)),
     map  |-> [r \in Range(Representations(objects)) |->
                  objects[CHOOSE i \in 1..Len(objects) :
                             /\ representation(objects[i]) = r
                             /\ \A j \in (i + 1)..Len(objects) :
                                   representation(objects[j]) # r]]]

\* {obj.representation(): order for obj, order in ordering.items()}
OrderingByName(ordering) ==
    [r \in {representation(obj) : obj \in DOMAIN ordering} |->
        ordering[CHOOSE obj \in DOMAIN ordering :
                    /\ representation(obj) = r
                    /\ \A other \in DOMAIN ordering :
                          representation(other) = r => ordering[other] <= ordering[obj]]]

\* a check that only looks for objects without a rank
OrderingsAligned_MissingOnly(prev_objects, prev_ordering, next_objects, next_ordering_) ==
    /\ DOMAIN ByName(prev_objects).map \subseteq DOMAIN OrderingByName(prev_ordering)
    /\ DOMAIN ByName(next_objects).map \subseteq DOMAIN OrderingByName(next_ordering_)

\* lines 151-161: the check that lets build_actions proceed
OrderingsAligned(prev_objects, prev_ordering, next_objects, next_ordering_) ==
    /\ DOMAIN OrderingByName(prev_ordering) = DOMAIN ByName(prev_objects).map
    /\ DOMAIN OrderingByName(next_ordering_) = DOMAIN ByName(next_objects).map

\* sorted(keys, key=rank, reverse=True)
RECURSIVE SortedByRank_Descending(_, _)
SortedByRank_Descending(keys, rank) ==
    IF keys = <<>> THEN <<>>
    ELSE LET i == CHOOSE i \in 1..Len(keys) :
                    /\ \A j \in 1..Len(keys) : rank[keys[i]] >= rank[keys[j]]
                    /\ \A j \in 1..(i - 1) : rank[keys[i]] > rank[keys[j]]
         IN  <<keys[i]>> \o
             SortedByRank_Descending(SubSeq(keys, 1, i - 1)
                                        \o SubSeq(keys, i + 1, Len(keys)), rank)

\* sorted(keys, key=rank), a stable sort
RECURSIVE SortedByRank(_, _)
SortedByRank(keys, rank) ==
    IF keys = <<>> THEN <<>>
    ELSE LET i == CHOOSE i \in 1..Len(keys) :
                    /\ \A j \in 1..Len(keys) : rank[keys[i]] <= rank[keys[j]]
                    /\ \A j \in 1..(i - 1) : rank[keys[i]] < rank[keys[j]]
         IN  <<keys[i]>> \o
             SortedByRank(SubSeq(keys, 1, i - 1) \o SubSeq(keys, i + 1, Len(keys)), rank)

\* one object per representation, in the order the list names them
SortedObjects_Unsorted(objects, ordering) ==
    LET by_name == ByName(objects)
    IN  [i \in 1..Len(by_name.keys) |-> by_name.map[by_name.keys[i]]]

\* lines 165-172: one object per representation, in rank order
SortedObjects(objects, ordering) ==
    LET by_name == ByName(objects)
        sorted  == SortedByRank(by_name.keys, OrderingByName(ordering))
    IN  [i \in 1..Len(sorted) |-> by_name.map[sorted[i]]]

\* the removed objects in ascending rank
ToDelete_NotReversed(sorted_previous, next_named) ==
    SelectSeq(sorted_previous,
              LAMBDA obj : representation(obj) \notin DOMAIN next_named)

\* lines 186-193
ToDelete(sorted_previous, next_named) ==
    Reverse(SelectSeq(sorted_previous,
                      LAMBDA obj : representation(obj) \notin DOMAIN next_named))

\* a call recorded by the actor
Call(op, obj, previous_obj) == [op |-> op, obj |-> obj, previous |-> previous_obj]

-----------------------------------------------------------------------------
(* The schemas a migration is planned between *)

IdField ==
    <<"id", [DBFieldInfo(Annotation("primitive", "int", FALSE, FALSE))
                EXCEPT !.primary_key = TRUE]>>

ValueFields ==
    {<<"v", DBFieldInfo(Annotation("enum", "E1", FALSE, FALSE))>>,
     <<"v", DBFieldInfo(Annotation("enum", "E2", FALSE, FALSE))>>,
     <<"v", DBFieldInfo(Annotation("primitive", "str", FALSE, FALSE))>>,
     <<"v", DBFieldInfo(Annotation("primitive", "str", FALSE, TRUE))>>}

RefField ==
    <<"ref", [DBFieldInfo(Annotation("primitive", "int", FALSE, FALSE))
                 EXCEPT !.foreign_key = "t2.id"]>>

T1Models ==
    {Model("T1", "", <<IdField>> \o v \o r, <<>>) :
        v \in {<<>>} \cup {<<f>> : f \in ValueFields}, r \in {<<>>, <<RefField>>}}

T2Models ==
    {Model("T2", "", <<IdField>> \o v, <<>>) :
        v \in {<<>>, <<<<"v", DBFieldInfo(Annotation("enum", "E1", FALSE, FALSE))>>>>}}

\* the model declares a column that references another table
HasForeignKey(table) == \E i \in 1..Len(table.model_fields) :
                           table.model_fields[i][2].foreign_key # ""

\* the lists of models handed to the extractor; a foreign key needs its target
ModelLists ==
    {declared \in {t2 \o t1 : t1 \in {<<>>} \cup {<<m>> : m \in T1Models},
                            t2 \in {<<>>} \cup {<<m>> : m \in T2Models}} :
        (\E i \in 1..Len(declared) : HasForeignKey(declared[i]))
            => \E i \in 1..Len(declared) : get_table_name(declared[i]) = "t2"}

DeclaredSnapshots ==
    {delegate(declared, hash_seed).pairs : declared \in ModelLists, hash_seed \in HashSeeds}

LiveSnapshots == {get_objects(declared, r) : declared \in ModelLists, r \in BOOLEAN}

Objects(pairs) == [i \in 1..Len(pairs) |-> pairs[i][1]]

-----------------------------------------------------------------------------
(* The planner as a state machine *)

Init ==
    /\ pc = "idle"
    /\ db_objects = <<>>
    /\ order_result = NoResult
    /\ models = <<>> /\ all_models = <<>>
    /\ prev_pairs = <<>> /\ next_pairs = <<>>
    /\ previous = <<>> /\ previous_ordering = EmptyMap
    /\ next = <<>> /\ next_ordering = EmptyMap
    /\ previous_by_name = EmptyMap /\ next_by_name = EmptyMap
    /\ prev_sorted = <<>> /\ next_sorted = <<>>
    /\ to_delete = <<>> /\ idx = 0
    /\ dry_run_actions = <<>>
    /\ started = <<>> /\ in_flight = {}
    /\ error = NoError
    /\ SessionIdle

\* the rank map the caller gets from order_db_objects for each snapshot
RankMaps ==
    [pairs \in DeclaredSnapshots \cup LiveSnapshots |-> order_db_objects(pairs)]

\* the caller reads two snapshots, ranks each with order_db_objects and calls
\* build_actions with the object lists and the rank maps
CallBuildActions(before, after, prev_ranked, next_ranked) ==
    /\ pc = "idle"
    /\ RankMaps[prev_ranked].status = "ok"
    /\ RankMaps[next_ranked].status = "ok"
    /\ prev_pairs' = before
    /\ next_pairs' = after
    /\ previous' = Objects(before)
    /\ previous_ordering' = RankMaps[prev_ranked].ranks
    /\ next' = Objects(after)
    /\ next_ordering' = RankMaps[next_ranked].ranks
    /\ pc' = "build_actions"
    /\ UNCHANGED <<db_objects, order_result, models, all_models,
                   previous_by_name, next_by_name, prev_sorted, next_sorted, to_delete, idx, dry_run_actions,
                   started, in_flight, error, in_transaction, open_blocks,
                   modified_attrs, last_call>>

\* the rank maps are those of the snapshots themselves
Migrate ==
    /\ pc = "idle"
    /\ \E before \in DeclaredSnapshots \cup LiveSnapshots, after \in DeclaredSnapshots :
          CallBuildActions(before, after, before, after)

\* a caller that passes the rank map of another snapshot
MigrateMisranked ==
    /\ pc = "idle"
    /\ \E before \in DeclaredSnapshots \cup LiveSnapshots, after \in DeclaredSnapshots :
          \/ CallBuildActions(before, after, after, after)
          \/ CallBuildActions(before, after, before, before)

\* the polymorphic models: a base with its discriminator field v, and two
\* subclasses stored in the table of the base, each with a column of its own
PolymorphicModel ==
    Model("T1", "", <<IdField,
                      <<"v", DBFieldInfo(Annotation("enum", "E1", FALSE, FALSE))>> >>,
          <<>>)

SubclassW ==
    Model("S1", "t1", <<IdField,
                        <<"v", DBFieldInfo(Annotation("enum", "E1", FALSE, FALSE))>>,
                        <<"w", DBFieldInfo(Annotation("primitive", "str", FALSE, TRUE))>> >>,
          <<>>)

SubclassX ==
    Model("S2", "t1", <<IdField,
                        <<"v", DBFieldInfo(Annotation("enum", "E1", FALSE, FALSE))>>,
                        <<"x", DBFieldInfo(Annotation("primitive", "str", FALSE, TRUE))>> >>,
          <<>>)

PlainModel == Model("T2", "", <<IdField>>, <<>>)

\* PolymorphicBase.get_discriminator_field: "" stands for None
get_discriminator_field(model) ==
    IF model \in {PolymorphicModel, SubclassW, SubclassX} THEN "v" ELSE ""

\* PolymorphicBase.get_all_subclasses
get_all_subclasses(model) ==
    IF model = PolymorphicModel THEN <<SubclassW, SubclassX>> ELSE <<>>

\* cli.py lines 32-34: the subclasses that are not yet listed are appended
RECURSIVE AppendSubclasses(_, _)
AppendSubclasses(listed, subclasses) ==
    IF subclasses = <<>> THEN listed
    ELSE AppendSubclasses(IF Head(subclasses) \in Range(listed) THEN listed
                          ELSE Append(listed, Head(subclasses)),
                          Tail(subclasses))

\* cli.py lines 23-34: the loop over the given models
RECURSIVE ExpandPolymorphic(_, _)
ExpandPolymorphic(given, listed) ==
    IF given = <<>> THEN listed
    ELSE ExpandPolymorphic(
             Tail(given),
             IF get_discriminator_field(Head(given)) # ""
             THEN AppendSubclasses(listed, get_all_subclasses(Head(given)))
             ELSE listed)

\* only the given models are handed on
AllModels_GivenOnly(given) == given

\* cli.py lines 23-34: all_models
AllModels(given) == ExpandPolymorphic(given, given)

\* the model lists create_all is called with
CreateAllInputs ==
    {<<PolymorphicModel>>, <<PolymorphicModel, SubclassW>>, <<SubclassW>>,
     <<PlainModel, PolymorphicModel>>, <<SubclassX, PolymorphicModel>>,
     <<PlainModel>>}

\* cli.py lines 23-38 for each of these lists
CreateAllRuns ==
    [given \in CreateAllInputs, hash_seed \in HashSeeds |->
        Bind(AllModels(given),
             LAMBDA listed :
                Bind(delegate(listed, hash_seed),
                     LAMBDA converted :
                        [all_models |-> listed,
                         error      |-> converted.error,
                         db_objects |-> converted.pairs,
                         ordering   |-> order_db_objects(converted.pairs)]))]

\* cli.py lines 10-44: create_all calls build_actions with an empty previous
\* state
CreateAll ==
    /\ pc = "idle"
    /\ \E given \in CreateAllInputs, hash_seed \in HashSeeds :
          /\ CreateAllRuns[given, hash_seed].error = ""
          /\ CreateAllRuns[given, hash_seed].ordering.status = "ok"
          /\ models' = given
          /\ all_models' = CreateAllRuns[given, hash_seed].all_models
          /\ prev_pairs' = <<>>
          /\ next_pairs' = CreateAllRuns[given, hash_seed].db_objects
          /\ previous' = <<>>
          /\ previous_ordering' = EmptyMap
          /\ next' = Objects(CreateAllRuns[given, hash_seed].db_objects)
          /\ next_ordering' = CreateAllRuns[given, hash_seed].ordering.ranks
    /\ pc' = "build_actions"
    /\ UNCHANGED <<db_objects, order_result, previous_by_name, next_by_name,
                   prev_sorted, next_sorted, to_delete, idx, dry_run_actions,
                   started, in_flight, error, in_transaction, open_blocks,
                   modified_attrs, last_call>>

CallUnchanged ==
    UNCHANGED <<db_objects, order_result, models, all_models, prev_pairs, next_pairs, previous,
                previous_ordering, next, next_ordering, in_transaction, open_blocks,
                modified_attrs, last_call>>

\* the first object is created before the check is made
VerifyRaise_AfterCreate ==
    /\ pc = "build_actions"
    /\ ~OrderingsAligned(previous, previous_ordering, next, next_ordering)
    /\ previous_by_name' = ByName(previous).map
    /\ next_by_name' = ByName(next).map
    /\ started' = IF next = <<>> THEN started
                  ELSE Append(started, Call("create", next[1], NoObject))
    /\ dry_run_actions' = IF next = <<>> THEN dry_run_actions
                          ELSE Append(dry_run_actions, Call("create", next[1], NoObject))
    /\ error' = [kind |-> "ValueError", rep |-> ""]
    /\ pc' = "failed"
    /\ CallUnchanged
    /\ UNCHANGED <<prev_sorted, next_sorted, to_delete, idx, in_flight>>

\* lines 138-161: the rank maps do not match the object lists
VerifyRaise ==
    /\ pc = "build_actions"
    /\ ~OrderingsAligned(previous, previous_ordering, next, next_ordering)
    /\ previous_by_name' = ByName(previous).map
    /\ next_by_name' = ByName(next).map
    /\ error' = [kind |-> "ValueError", rep |-> ""]
    /\ pc' = "failed"
    /\ CallUnchanged
    /\ UNCHANGED <<prev_sorted, next_sorted, to_delete, idx, dry_run_actions,
                   started, in_flight>>

\* lines 138-172: the check passes and both lists are sorted
VerifyPass ==
    /\ pc = "build_actions"
    /\ OrderingsAligned(previous, previous_ordering, next, next_ordering)
    /\ previous_by_name' = ByName(previous).map
    /\ next_by_name' = ByName(next).map
    /\ prev_sorted' = SortedObjects(previous, previous_ordering)
    /\ next_sorted' = SortedObjects(next, next_ordering)
    /\ idx' = 1
    /\ pc' = "create_migrate"
    /\ CallUnchanged
    /\ UNCHANGED <<to_delete, dry_run_actions, started, in_flight, error>>

\* lines 174-195: await hands control to the call; build_actions goes on only
\* when the call is over
Await(call) ==
    /\ started' = Append(started, call)
    /\ in_flight' = in_flight \cup {call}

\* the call is scheduled and the loop goes on without waiting for it
Create_NotAwaited ==
    /\ pc = "create_migrate"
    /\ idx <= Len(next_sorted)
    /\ representation(next_sorted[idx]) \notin DOMAIN previous_by_name
    /\ Await(Call("create", next_sorted[idx], NoObject))
    /\ idx' = idx + 1
    /\ CallUnchanged
    /\ UNCHANGED <<previous_by_name, next_by_name, prev_sorted, next_sorted,
                   to_delete, pc, dry_run_actions, error>>

\* lines 174-178
Create ==
    /\ pc = "create_migrate"
    /\ idx <= Len(next_sorted)
    /\ representation(next_sorted[idx]) \notin DOMAIN previous_by_name
    /\ Await(Call("create", next_sorted[idx], NoObject))
    /\ pc' = "await_create_migrate"
    /\ CallUnchanged
    /\ UNCHANGED <<previous_by_name, next_by_name, prev_sorted, next_sorted,
                   to_delete, idx, dry_run_actions, error>>

\* a migrate that is handed the next object twice
MigrateObject_AgainstItself ==
    /\ pc = "create_migrate"
    /\ idx <= Len(next_sorted)
    /\ representation(next_sorted[idx]) \in DOMAIN previous_by_name
    /\ previous_by_name[representation(next_sorted[idx])] # next_sorted[idx]
    /\ Await(Call("migrate", next_sorted[idx], next_sorted[idx]))
    /\ pc' = "await_create_migrate"
    /\ CallUnchanged
    /\ UNCHANGED <<previous_by_name, next_by_name, prev_sorted, next_sorted,
                   to_delete, idx, dry_run_actions, error>>

\* lines 179-182, the objects differ
MigrateObject ==
    /\ pc = "create_migrate"
    /\ idx <= Len(next_sorted)
    /\ representation(next_sorted[idx]) \in DOMAIN previous_by_name
    /\ previous_by_name[representation(next_sorted[idx])] # next_sorted[idx]
    /\ Await(Call("migrate", next_sorted[idx],
                  previous_by_name[representation(next_sorted[idx])]))
    /\ pc' = "await_create_migrate"
    /\ CallUnchanged
    /\ UNCHANGED <<previous_by_name, next_by_name, prev_sorted, next_sorted,
                   to_delete, idx, dry_run_actions, error>>

\* an object that did not change is migrated all the same
Keep_Migrates ==
    /\ pc = "create_migrate"
    /\ idx <= Len(next_sorted)
    /\ representation(next_sorted[idx]) \in DOMAIN previous_by_name
    /\ previous_by_name[representation(next_sorted[idx])] = next_sorted[idx]
    /\ Await(Call("migrate", next_sorted[idx],
                  previous_by_name[representation(next_sorted[idx])]))
    /\ pc' = "await_create_migrate"
    /\ CallUnchanged
    /\ UNCHANGED <<previous_by_name, next_by_name, prev_sorted, next_sorted,
                   to_delete, idx, dry_run_actions, error>>

\* lines 179-181, the objects are equal
Keep ==
    /\ pc = "create_migrate"
    /\ idx <= Len(next_sorted)
    /\ representation(next_sorted[idx]) \in DOMAIN previous_by_name
    /\ previous_by_name[representation(next_sorted[idx])] = next_sorted[idx]
    /\ idx' = idx + 1
    /\ CallUnchanged
    /\ UNCHANGED <<previous_by_name, next_by_name, prev_sorted, next_sorted,
                   to_delete, pc, error, dry_run_actions, started, in_flight>>

\* the second loop starts while the first loop still has objects to visit
CollectDeleted_Early ==
    /\ pc = "create_migrate"
    /\ to_delete' = ToDelete(prev_sorted, next_by_name)
    /\ pc' = "destroy"
    /\ CallUnchanged
    /\ UNCHANGED <<previous_by_name, next_by_name, prev_sorted, next_sorted, idx,
                   dry_run_actions, started, in_flight, error>>

\* lines 186-193
CollectDeleted ==
    /\ pc = "create_migrate"
    /\ idx > Len(next_sorted)
    /\ to_delete' = ToDelete(prev_sorted, next_by_name)
    /\ pc' = "destroy"
    /\ CallUnchanged
    /\ UNCHANGED <<previous_by_name, next_by_name, prev_sorted, next_sorted, idx,
                   dry_run_actions, started, in_flight, error>>

\* lines 194-195
Destroy ==
    /\ pc = "destroy"
    /\ to_delete # <<>>
    /\ Await(Call("destroy", Head(to_delete), NoObject))
    /\ pc' = "await_destroy"
    /\ CallUnchanged
    /\ UNCHANGED <<previous_by_name, next_by_name, prev_sorted, next_sorted,
                   to_delete, idx, dry_run_actions, error>>

\* lines 174-195: the awaited call returns, the actor has recorded it and the
\* loop that made it moves on to its next object
CallReturns ==
    /\ pc \in {"await_create_migrate", "await_destroy"}
    /\ \E call \in in_flight :
          /\ dry_run_actions' = Append(dry_run_actions, call)
          /\ in_flight' = in_flight \ {call}
    /\ IF pc = "await_destroy"
       THEN /\ to_delete' = Tail(to_delete)
            /\ pc' = "destroy"
            /\ UNCHANGED idx
       ELSE /\ idx' = idx + 1
            /\ pc' = "create_migrate"
            /\ UNCHANGED to_delete
    /\ CallUnchanged
    /\ UNCHANGED <<previous_by_name, next_by_name, prev_sorted, next_sorted,
                   started, error>>

\* a failed call is logged and the loop goes on with the next object
CallRaises_Swallowed ==
    /\ pc \in {"await_create_migrate", "await_destroy"}
    /\ \E call \in in_flight :
          /\ in_flight' = in_flight \ {call}
          /\ error' = [kind |-> "ActionError", rep |-> representation(call.obj)]
    /\ IF pc = "await_destroy"
       THEN /\ to_delete' = Tail(to_delete)
            /\ pc' = "destroy"
            /\ UNCHANGED idx
       ELSE /\ idx' = idx + 1
            /\ pc' = "create_migrate"
            /\ UNCHANGED to_delete
    /\ CallUnchanged
    /\ UNCHANGED <<previous_by_name, next_by_name, prev_sorted, next_sorted,
                   started, dry_run_actions>>

\* lines 174-195: the awaited call raises; no try statement encloses the await,
\* so the exception leaves build_actions and the actor keeps what it recorded
CallRaises ==
    /\ pc \in {"await_create_migrate", "await_destroy"}
    /\ \E call \in in_flight :
          /\ in_flight' = in_flight \ {call}
          /\ error' = [kind |-> "ActionError", rep |-> representation(call.obj)]
    /\ pc' = "aborted"
    /\ CallUnchanged
    /\ UNCHANGED <<previous_by_name, next_by_name, prev_sorted, next_sorted,
                   to_delete, idx, started, dry_run_actions>>

\* line 197
Return ==
    /\ pc = "destroy"
    /\ to_delete = <<>>
    /\ pc' = "done"
    /\ CallUnchanged
    /\ UNCHANGED <<previous_by_name, next_by_name, prev_sorted, next_sorted,
                   to_delete, idx, dry_run_actions, started, in_flight, error>>

Next ==
    \/ Migrate
    \/ CreateAll
    \/ MigrateMisranked
    \/ VerifyRaise
    \/ VerifyPass
    \/ Create
    \/ MigrateObject
    \/ Keep
    \/ CollectDeleted
    \/ Destroy
    \/ CallReturns
    \/ CallRaises
    \/ Return

Spec == Init /\ [][Next]_vars

-----------------------------------------------------------------------------
(* Properties of build_actions *)

Done == pc = "done"

RepSet(objects) == {representation(objects[i]) : i \in 1..Len(objects)}

\* the object a list holds for a representation: the last one listed
ObjectOf(objects, r) ==
    objects[CHOOSE i \in 1..Len(objects) :
               /\ representation(objects[i]) = r
               /\ \A j \in (i + 1)..Len(objects) : representation(objects[j]) # r]

\* the positions in the recorded calls of the operation op on representation r
Calls(op, r) ==
    {i \in 1..Len(dry_run_actions) :
        dry_run_actions[i].op = op /\ representation(dry_run_actions[i].obj) = r}

CallsOn(r) ==
    {i \in 1..Len(dry_run_actions) : representation(dry_run_actions[i].obj) = r}

Position(op, r) == CHOOSE i \in Calls(op, r) : TRUE

\* build_actions was called with a snapshot and the rank map computed for it
ValidPrevious == previous_ordering = order_db_objects(prev_pairs).ranks
ValidNext     == next_ordering = order_db_objects(next_pairs).ranks

\* every dependency an object was listed with, by representation
DependencyEdges(pairs) ==
    UNION {{<<representation(pairs[i][1]), representation(pairs[i][2][k])>> :
               k \in 1..Len(pairs[i][2])} : i \in 1..Len(pairs)}

\* C1: diffing a valid snapshot against itself fails nowhere and invokes no
\* create, no migrate and no destroy: the recorded sequence stays empty.
C1_SelfDiffIsEmpty ==
    (pc # "idle" /\ previous = next /\ previous_ordering = next_ordering /\ ValidNext)
        => /\ pc # "failed"
           /\ dry_run_actions = <<>>

\* a finished self-diff of a snapshot that lists one type twice
C1_Witness ==
    /\ Done
    /\ previous = next /\ previous_ordering = next_ordering /\ ValidNext
    /\ Len(next) > Cardinality(RepSet(next))
    /\ Cardinality(RepSet(next)) >= 8

\* C2: from an empty previous state build_actions invokes create exactly once
\* per representation of the next snapshot and nothing else, in ascending next
\* rank, so that every object is created after the objects it depends on.
C2_FromScratchCreatesAll ==
    (pc \in {"failed", "done"} /\ previous = <<>> /\ previous_ordering = EmptyMap
                               /\ ValidNext)
        => /\ Done
           /\ Len(dry_run_actions) = Cardinality(RepSet(next))
           /\ \A i \in 1..Len(dry_run_actions) : dry_run_actions[i].op = "create"
           /\ \A r \in RepSet(next) : Cardinality(Calls("create", r)) = 1
           /\ \A i, j \in 1..Len(dry_run_actions) :
                 i < j => RankOf(next_ordering, representation(dry_run_actions[i].obj))
                          < RankOf(next_ordering, representation(dry_run_actions[j].obj))
           /\ \A e \in DependencyEdges(next_pairs) :
                 Position("create", e[2]) < Position("create", e[1])

\* two tables, a type and a primary key created from nothing
C2_Witness ==
    /\ Done
    /\ previous = <<>>
    /\ Len(dry_run_actions) >= 8
    /\ \E i \in 1..Len(dry_run_actions) : dry_run_actions[i].obj.kind = "Type"
    /\ \E i \in 1..Len(dry_run_actions) : dry_run_actions[i].obj.kind = "Constraint"

\* the create and migrate calls, in the order they were made
CreatesAndMigrations ==
    SelectSeq(dry_run_actions, LAMBDA c : c.op \in {"create", "migrate"})

\* C4: the objects of next are visited in ascending next rank; one absent
\* from previous is created, one present with a different value is migrated
\* with the previous object as argument, one present and equal gets no call.
C4_Classification ==
    Done =>
       /\ \A r \in RepSet(next) :
             IF r \notin RepSet(previous)
             THEN /\ Calls("migrate", r) = {}
                  /\ Cardinality(Calls("create", r)) = 1
                  /\ dry_run_actions[Position("create", r)] =
                        Call("create", ObjectOf(next, r), NoObject)
             ELSE IF ObjectOf(previous, r) # ObjectOf(next, r)
             THEN /\ Calls("create", r) = {}
                  /\ Cardinality(Calls("migrate", r)) = 1
                  /\ dry_run_actions[Position("migrate", r)] =
                        Call("migrate", ObjectOf(next, r), ObjectOf(previous, r))
             ELSE CallsOn(r) = {}
       /\ \A i \in 1..Len(CreatesAndMigrations) :
             representation(CreatesAndMigrations[i].obj) \in RepSet(next)
       /\ \A i, j \in 1..Len(CreatesAndMigrations) :
             i < j => RankOf(next_ordering, representation(CreatesAndMigrations[i].obj))
                      < RankOf(next_ordering, representation(CreatesAndMigrations[j].obj))

\* a finished diff that created, migrated and left alone at least one object
C4_Witness ==
    /\ Done
    /\ \E i \in 1..Len(dry_run_actions) : dry_run_actions[i].op = "create"
    /\ \E i \in 1..Len(dry_run_actions) :
          /\ dry_run_actions[i].op = "migrate"
          /\ dry_run_actions[i].obj.kind = "Column"
    /\ \E r \in RepSet(next) \cap RepSet(previous) : CallsOn(r) = {}

Destroys == SelectSeq(dry_run_actions, LAMBDA c : c.op = "destroy")

\* C5: exactly the objects whose representation is in previous and not in
\* next are destroyed, once each, in strictly descending previous rank, so
\* that a destroyed object goes before every destroyed object it depends on.
C5_DestroyOrder ==
    Done =>
       /\ {representation(Destroys[i].obj) : i \in 1..Len(Destroys)}
             = RepSet(previous) \ RepSet(next)
       /\ \A r \in RepSet(previous) \ RepSet(next) :
             /\ Cardinality(Calls("destroy", r)) = 1
             /\ dry_run_actions[Position("destroy", r)].obj = ObjectOf(previous, r)
       /\ \A i, j \in 1..Len(Destroys) :
             i < j => RankOf(previous_ordering, representation(Destroys[i].obj))
                      > RankOf(previous_ordering, representation(Destroys[j].obj))
       /\ ValidPrevious =>
             \A e \in DependencyEdges(prev_pairs) :
                (Calls("destroy", e[1]) # {} /\ Calls("destroy", e[2]) # {})
                    => Position("destroy", e[1]) < Position("destroy", e[2])

\* a table dropped with its columns and its primary key
C5_Witness ==
    /\ Done
    /\ \E i, j, k \in 1..Len(dry_run_actions) :
          /\ i < j /\ j < k
          /\ dry_run_actions[i].op = "destroy" /\ dry_run_actions[i].obj.kind = "Constraint"
          /\ dry_run_actions[j].op = "destroy" /\ dry_run_actions[j].obj.kind = "Column"
          /\ dry_run_actions[k].op = "destroy" /\ dry_run_actions[k].obj.kind = "Table"
    /\ \E r \in RepSet(previous) \cap RepSet(next) : TRUE

\* the columns of both snapshots whose type pointer went from one type, which
\* next no longer has, to a type that previous did not have
ReplacedTypeColumns ==
    {c \in RepSet(previous) \cap RepSet(next) :
        LET before == ObjectOf(previous, c)
            after  == ObjectOf(next, c)
        IN  /\ before.kind = "Column" /\ after.kind = "Column"
            /\ before.column_type.kind = "TypePointer"
            /\ after.column_type.kind = "TypePointer"
            /\ before.column_type.name # after.column_type.name
            /\ before.column_type.name \in RepSet(previous) \ RepSet(next)
            /\ after.column_type.name \in RepSet(next) \ RepSet(previous)}

\* C6: when the enumerated type of a column is replaced by a type of another
\* name, the plan creates the new type, then migrates the column, then
\* destroys the old type; no type is destroyed before the migrate of a column
\* that referenced it.
C6_TypeReplacementOrder ==
    Done =>
       /\ \A c \in ReplacedTypeColumns :
             LET old == ObjectOf(previous, c).column_type.name
                 new == ObjectOf(next, c).column_type.name
             IN  /\ Calls("create", new) # {}
                 /\ Calls("migrate", c) # {}
                 /\ Calls("destroy", old) # {}
                 /\ Position("create", new) < Position("migrate", c)
                 /\ Position("migrate", c) < Position("destroy", old)
       /\ \A c \in RepSet(previous) :
             LET before == ObjectOf(previous, c)
             IN  (before.kind = "Column" /\ before.column_type.kind = "TypePointer")
                    => \A m \in Calls("migrate", c) :
                          \A d \in Calls("destroy", before.column_type.name) : m < d

\* a finished plan that replaced the type of a column of a live database
C6_Witness ==
    /\ Done
    /\ ReplacedTypeColumns # {}
    /\ \E c \in ReplacedTypeColumns :
          Calls("destroy", ObjectOf(previous, c).column_type.name) # {}
    /\ previous_ordering # EmptyMap

TypesOf(objects) == {objects[i] : i \in {k \in 1..Len(objects) : objects[k].kind = "Type"}}

\* C7 (as stated): from an empty previous state a type shared by two tables is
\* created exactly once, and the Type object handed to create carries the
\* reference_columns entries of both tables.
C7_SharedTypeCreatedWithAllReferences ==
    (Done /\ previous = <<>> /\ previous_ordering = EmptyMap /\ ValidNext) =>
        \A r \in {t.name : t \in TypesOf(next)} :
           /\ Cardinality(Calls("create", r)) = 1
           /\ \A t \in TypesOf(next) :
                 t.name = r =>
                    t.reference_columns \subseteq
                       dry_run_actions[Position("create", r)].obj.reference_columns

\* a foreign-key constraint of previous, as <<constraint, target table>>
ForeignKeys ==
    {<<representation(previous[i]), previous[i].foreign_key_constraint.target_table>> :
        i \in {k \in 1..Len(previous) :
                  /\ previous[k].kind = "Constraint"
                  /\ previous[k].foreign_key_constraint # NoObject}}

\* C8: when a table that a foreign key of another table targets is removed
\* together with the foreign-key constraint, the constraint is destroyed
\* before the table.
C8_ForeignKeyDestroyedFirst ==
    (Done /\ ValidPrevious) =>
        \A fk \in ForeignKeys :
           (fk[1] \notin RepSet(next) /\ fk[2] \in RepSet(previous) \ RepSet(next))
              => /\ Calls("destroy", fk[1]) # {}
                 /\ Calls("destroy", fk[2]) # {}
                 /\ Position("destroy", fk[1]) < Position("destroy", fk[2])

\* the referenced table and the constraint are gone, the referencing table stays
C8_Witness ==
    /\ Done
    /\ \E fk \in ForeignKeys :
          /\ Calls("destroy", fk[1]) # {}
          /\ Calls("destroy", fk[2]) # {}
          /\ "t1" \in RepSet(next)

\* the two ordering maps are keyed by exactly the representations listed
KeysMatch ==
    /\ {representation(obj) : obj \in DOMAIN previous_ordering} = RepSet(previous)
    /\ {representation(obj) : obj \in DOMAIN next_ordering} = RepSet(next)

\* C9: build_actions fails, before any call, whenever the representations
\* keyed in an ordering differ from those of its object list, and proceeds
\* only when both pairs match.
C9_MismatchIsFatal ==
    /\ (pc \notin {"idle", "build_actions"} /\ ~KeysMatch)
          => /\ pc = "failed"
             /\ error.kind = "ValueError"
             /\ started = <<>>
             /\ dry_run_actions = <<>>
    /\ (pc \notin {"idle", "build_actions"} /\ KeysMatch)
          => pc # "failed" /\ error.kind # "ValueError"

\* a refused call whose previous pair matches and whose next pair does not
C9_Witness ==
    /\ pc = "failed"
    /\ {representation(obj) : obj \in DOMAIN previous_ordering} = RepSet(previous)
    /\ {representation(obj) : obj \in DOMAIN next_ordering} # RepSet(next)
    /\ previous # <<>>

\* the call build_actions is waiting for
Awaiting == pc \in {"await_create_migrate", "await_destroy"}

\* C12: build_actions has at most one call in flight; a call in flight is the
\* last one started and every call started before it is over and recorded, in
\* the order the calls were started; while no call is in flight and none has
\* failed, the recorded calls are the started ones.
C12_OneCallInFlight ==
    /\ Cardinality(in_flight) <= 1
    /\ Awaiting <=> in_flight # {}
    /\ in_flight # {} =>
          /\ started # <<>>
          /\ in_flight = {started[Len(started)]}
          /\ dry_run_actions = SubSeq(started, 1, Len(started) - 1)
    /\ (in_flight = {} /\ error.kind # "ActionError") => dry_run_actions = started

\* a third call in flight after two calls that are over
C12_Witness ==
    /\ Awaiting
    /\ Len(dry_run_actions) = 2
    /\ Len(started) = 3
    /\ in_flight = {started[3]}

\* C13: once a call has failed, build_actions is over with that failure as its
\* outcome: the failed call is the last one ever started, nothing is in flight,
\* and the calls that were over before it are still recorded.
C13_FailFast ==
    error.kind = "ActionError" =>
       /\ pc = "aborted"
       /\ in_flight = {}
       /\ started # <<>>
       /\ error.rep = representation(started[Len(started)].obj)
       /\ dry_run_actions = SubSeq(started, 1, Len(started) - 1)

\* a destroy fails after a create and a migrate that are over; objects are left
\* to destroy
C13_Witness ==
    /\ pc = "aborted"
    /\ error.kind = "ActionError"
    /\ started[Len(started)].op = "destroy"
    /\ Len(to_delete) >= 2
    /\ \E i, j \in 1..Len(dry_run_actions) :
          dry_run_actions[i].op = "create" /\ dry_run_actions[j].op = "migrate"

\* every subclass of the polymorphic bases among the given models
AllSubclasses(given) ==
    UNION {Range(get_all_subclasses(given[i])) :
              i \in {k \in 1..Len(given) : get_discriminator_field(given[k]) # ""}}

\* the (table, column) names the models declare for the user
DeclaredColumns(tables) ==
    UNION {{<<get_table_name(table), UserFields(table)[k][1]>> :
               k \in 1..Len(UserFields(table))} : table \in tables}

\* C14: create_all hands the extractor the given models and every subclass of
\* each polymorphic base among them, calls build_actions with an empty previous
\* state, and starts nothing but creates: one for each object of the resulting
\* state, among them the columns of the subclasses that were not listed.
C14_CreateAllCoversSubclasses ==
    all_models # <<>> =>
       /\ Range(all_models) = Range(models) \cup AllSubclasses(models)
       /\ pc # "idle" => previous = <<>> /\ previous_ordering = EmptyMap
       /\ \A i \in 1..Len(started) : started[i].op = "create"
       /\ Done =>
             /\ \A r \in RepSet(next) : Cardinality(CallsOn(r)) = 1
             /\ Len(dry_run_actions) = Cardinality(RepSet(next))
             /\ \A column \in DeclaredColumns(Range(models) \cup AllSubclasses(models)) :
                   \E i \in 1..Len(dry_run_actions) :
                      /\ dry_run_actions[i].obj.kind = "Column"
                      /\ dry_run_actions[i].obj.table_name = column[1]
                      /\ dry_run_actions[i].obj.column_name = column[2]

\* create_all is given the base alone and creates the columns of both subclasses
C14_Witness ==
    /\ Done
    /\ models = <<PolymorphicModel>>
    /\ all_models = <<PolymorphicModel, SubclassW, SubclassX>>
    /\ Calls("create", "t1.w") # {}
    /\ Calls("create", "t1.x") # {}
    /\ Calls("create", "e1") # {}

-----------------------------------------------------------------------------
(* The extractor on its own: delegate is handed a list of models and yields  *)
(* its (node, dependencies) pairs                                            *)

\* an id column that is no primary key
PlainIdField == <<"id", DBFieldInfo(Annotation("primitive", "int", FALSE, FALSE))>>

\* a second primary-key column
KeyField ==
    <<"k", [DBFieldInfo(Annotation("primitive", "int", FALSE, FALSE))
               EXCEPT !.primary_key = TRUE]>>

\* the column v: an enum, or a string with the single-column modifiers
ModifiedValueFields ==
    {<<"v", DBFieldInfo(Annotation("enum", "E1", FALSE, FALSE))>>,
     <<"v", [DBFieldInfo(Annotation("enum", "E1", FALSE, FALSE)) EXCEPT !.index = TRUE]>>,
     <<"v", DBFieldInfo(Annotation("primitive", "str", FALSE, FALSE))>>,
     <<"v", [DBFieldInfo(Annotation("primitive", "str", FALSE, FALSE)) EXCEPT !.unique = TRUE]>>,
     <<"v", [DBFieldInfo(Annotation("primitive", "str", FALSE, FALSE)) EXCEPT !.index = TRUE]>>,
     <<"v", [DBFieldInfo(Annotation("primitive", "str", FALSE, FALSE))
                EXCEPT !.check_expression = "v <> ''"]>>,
     <<"v", [DBFieldInfo(Annotation("primitive", "str", FALSE, FALSE))
                EXCEPT !.unique = TRUE, !.index = TRUE, !.check_expression = "v <> ''"]>>}

\* a JSON-like container, with and without the opt-in
JsonFields ==
    {<<"j", [DBFieldInfo(Annotation("json", "dict", FALSE, FALSE)) EXCEPT !.is_json = TRUE]>>,
     <<"j", DBFieldInfo(Annotation("json", "dict", FALSE, FALSE))>>}

\* a second column of the enum E1
SecondEnumField == <<"w", DBFieldInfo(Annotation("enum", "E1", FALSE, FALSE))>>

\* the table_args in use; CheckDescriptor is neither a UniqueConstraint nor an
\* IndexConstraint
TableArgs ==
    {<<>>,
     <<[kind |-> "UniqueConstraint", columns |-> <<"id", "v">>]>>,
     <<[kind |-> "IndexConstraint", columns |-> <<"v">>]>>,
     <<[kind |-> "UniqueConstraint", columns |-> <<"id", "v">>],
       [kind |-> "IndexConstraint", columns |-> <<"id">>]>>,
     <<[kind |-> "CheckDescriptor", columns |-> <<"v">>]>>,
     <<[kind |-> "IndexConstraint", columns |-> <<"v">>],
       [kind |-> "CheckDescriptor", columns |-> <<"v">>],
       [kind |-> "UniqueConstraint", columns |-> <<"id">>]>>}

ExtractorTables ==
    {Model("T1", "", keys \o j \o v \o w \o r, args) :
        keys \in {<<PlainIdField>>, <<IdField>>, <<IdField, KeyField>>},
        j \in {<<>>} \cup {<<f>> : f \in JsonFields},
        v \in {<<>>} \cup {<<f>> : f \in ModifiedValueFields},
        w \in {<<>>, <<SecondEnumField>>},
        r \in {<<>>, <<RefField>>},
        args \in TableArgs}

\* the lists delegate is handed: one table, or the lists of ModelLists
ExtractorInputs == {<<table>> : table \in ExtractorTables} \cup ModelLists

InitExtract ==
    /\ pc = "extract_call"
    /\ db_objects = <<>>
    /\ order_result = NoResult
    /\ models = <<>> /\ all_models \in ExtractorInputs
    /\ prev_pairs = <<>> /\ next_pairs = <<>>
    /\ previous = <<>> /\ previous_ordering = EmptyMap
    /\ next = <<>> /\ next_ordering = EmptyMap
    /\ previous_by_name = EmptyMap /\ next_by_name = EmptyMap
    /\ prev_sorted = <<>> /\ next_sorted = <<>>
    /\ to_delete = <<>> /\ idx = 0
    /\ dry_run_actions = <<>>
    /\ started = <<>> /\ in_flight = {}
    /\ error = NoError
    /\ SessionIdle

\* list(delegate(all_models)) returns
ExtractReturn ==
    /\ pc = "extract_call"
    /\ \E hash_seed \in HashSeeds :
          /\ delegate(all_models, hash_seed).error = ""
          /\ db_objects' = delegate(all_models, hash_seed).pairs
    /\ pc' = "extract_done"
    /\ UNCHANGED <<order_result, error>>
    /\ PlanUnchanged

\* delegate raises: db_objects holds what it yielded before
ExtractRaise ==
    /\ pc = "extract_call"
    /\ \E hash_seed \in HashSeeds :
          /\ delegate(all_models, hash_seed).error # ""
          /\ db_objects' = delegate(all_models, hash_seed).pairs
          /\ error' = [kind |-> "ValueError",
                       rep  |-> delegate(all_models, hash_seed).error]
    /\ pc' = "extract_failed"
    /\ UNCHANGED order_result
    /\ PlanUnchanged

\* the orders in which the same tables can be listed
ListOrders(tables) == {tables, Reverse(tables)}

\* a second run, in a process of its own, on the same tables in some list
\* order: next_pairs holds what it returns
ExtractAgain ==
    /\ pc = "extract_done"
    /\ \E listed \in ListOrders(all_models), hash_seed \in HashSeeds :
          /\ delegate(listed, hash_seed).error = ""
          /\ models' = listed
          /\ next_pairs' = delegate(listed, hash_seed).pairs
    /\ pc' = "extract_twice"
    /\ UNCHANGED <<db_objects, order_result, all_models, prev_pairs, previous,
                   previous_ordering, next, next_ordering, previous_by_name,
                   next_by_name, prev_sorted, next_sorted, to_delete, idx,
                   dry_run_actions, started, in_flight, error, in_transaction,
                   open_blocks, modified_attrs, last_call>>

NextExtract == ExtractReturn \/ ExtractRaise \/ ExtractAgain

SpecExtract == InitExtract /\ [][NextExtract]_vars

-----------------------------------------------------------------------------
(* Properties of the extractor *)

Extracted == pc \in {"extract_done", "extract_twice"}

\* the positions in db_objects of the nodes of a kind that belong to a table
NodesOf(kind, table) ==
    {i \in 1..Len(db_objects) :
        /\ db_objects[i][1].kind = kind
        /\ db_objects[i][1].table_name = get_table_name(table)}

ConstraintNodes(table, constraint_type) ==
    {i \in NodesOf("Constraint", table) :
        db_objects[i][1].constraint_type = constraint_type}

PrimaryKeyFields(table) ==
    {UserFields(table)[k][1] :
        k \in {j \in 1..Len(UserFields(table)) : UserFields(table)[j][2].primary_key}}

\* C15: a table with no primary-key field gets no PRIMARY_KEY node; any other
\* table gets exactly one, over the set of all its primary-key fields, placed
\* after every column node of the table and listing each of them as a
\* dependency.
C15_OnePrimaryKeyNode ==
    Extracted =>
       \A t \in 1..Len(all_models) :
          LET table == all_models[t]
              keys  == ConstraintNodes(table, "PRIMARY_KEY")
          IN  /\ PrimaryKeyFields(table) = {} <=> keys = {}
              /\ Cardinality(keys) <= 1
              /\ Cardinality(NodesOf("Column", table)) = Len(UserFields(table))
              /\ \A i \in keys :
                    /\ db_objects[i][1].columns = PrimaryKeyFields(table)
                    /\ \A j \in NodesOf("Column", table) :
                          /\ j < i
                          /\ db_objects[j][1] \in Range(db_objects[i][2])

\* a table with the primary key (id, k) and two more columns
C15_Witness ==
    /\ Extracted
    /\ Len(all_models) = 1
    /\ PrimaryKeyFields(all_models[1]) = {"id", "k"}
    /\ Cardinality(NodesOf("Column", all_models[1])) = 4
    /\ \E i \in ConstraintNodes(all_models[1], "PRIMARY_KEY") :
          db_objects[i][1].columns = {"id", "k"}

\* the constraint kinds of the modifiers a field carries
Modifiers(info) ==
    {kind \in {"UNIQUE", "FOREIGN_KEY", "INDEX", "CHECK"} :
        \/ kind = "UNIQUE" /\ info.unique
        \/ kind = "FOREIGN_KEY" /\ info.foreign_key # ""
        \/ kind = "INDEX" /\ info.index
        \/ kind = "CHECK" /\ info.check_expression # ""}

\* C16: for every field of every extracted table and every modifier among
\* unique, foreign key, index and check that the field carries, the emitted
\* sequence holds exactly one single-column Constraint node of that kind on
\* that column.
C16_OneConstraintPerModifier ==
    Extracted =>
       \A t \in 1..Len(all_models) :
          \A k \in 1..Len(UserFields(all_models[t])) :
             \A kind \in Modifiers(UserFields(all_models[t])[k][2]) :
                Cardinality({i \in ConstraintNodes(all_models[t], kind) :
                                db_objects[i][1].columns =
                                    {UserFields(all_models[t])[k][1]}}) = 1

\* the JSON-like fields of the table that do not opt in
RejectedFields(table) ==
    {UserFields(table)[k][1] :
        k \in {n \in 1..Len(UserFields(table)) :
                 /\ UserFields(table)[n][2].annotation.category = "json"
                 /\ ~UserFields(table)[n][2].is_json}}

\* the positions in table_args of the descriptors that are neither a
\* UniqueConstraint nor an IndexConstraint
UnsupportedArgs(table) ==
    {n \in 1..Len(table.table_args) :
        table.table_args[n].kind \notin {"UniqueConstraint", "IndexConstraint"}}

\* the descriptors handled before the first unsupported one
HandledArgs(table) ==
    {n \in 1..Len(table.table_args) : \A m \in UnsupportedArgs(table) : n < m}

\* the constraint nodes of the table that are not its primary key
CompositeNodes(table) ==
    NodesOf("Constraint", table) \ ConstraintNodes(table, "PRIMARY_KEY")

\* C17: when no column of the tables is refused, the extraction returns
\* exactly when every table_args descriptor is a UniqueConstraint or an
\* IndexConstraint, and fails with an error otherwise.
\* Each descriptor handled gets exactly one Constraint node, UNIQUE for a
\* UniqueConstraint and INDEX for an IndexConstraint, over the descriptor's
\* columns and depending on every column node of the table; a descriptor of
\* another kind gets no node.
C17_OneNodePerTableArg ==
    (pc # "extract_call" /\ \A t \in 1..Len(all_models) : RejectedFields(all_models[t]) = {}) =>
       /\ Extracted <=> \A t \in 1..Len(all_models) : UnsupportedArgs(all_models[t]) = {}
       /\ ~Extracted => /\ error.kind = "ValueError"
                        /\ error.rep = "Unsupported constraint type"
       /\ \A t \in 1..Len(all_models) :
             LET table == all_models[t]
             IN  /\ Cardinality(CompositeNodes(table)) = Cardinality(HandledArgs(table))
                 /\ \A n \in HandledArgs(table) :
                       \E i \in CompositeNodes(table) :
                          /\ db_objects[i][1].constraint_type =
                                (IF table.table_args[n].kind = "UniqueConstraint"
                                 THEN "UNIQUE" ELSE "INDEX")
                          /\ db_objects[i][1].columns = Range(table.table_args[n].columns)
                          /\ \A j \in NodesOf("Column", table) :
                                db_objects[j][1] \in Range(db_objects[i][2])
                          /\ \A j \in CompositeNodes(table) \ {i} :
                                db_objects[j][1] # db_objects[i][1]

\* a table with a composite UNIQUE over (id, v) and an INDEX over id
C17_Witness ==
    /\ Extracted
    /\ Len(all_models) = 1
    /\ Len(all_models[1].table_args) = 2
    /\ Cardinality(NodesOf("Column", all_models[1])) >= 3
    /\ \E i, j \in CompositeNodes(all_models[1]) :
          /\ db_objects[i][1].constraint_type = "UNIQUE"
          /\ db_objects[i][1].columns = {"id", "v"}
          /\ db_objects[j][1].constraint_type = "INDEX"
          /\ db_objects[j][1].columns = {"id"}

\* the positions in db_objects of the Type nodes
TypeNodes == {i \in 1..Len(db_objects) : db_objects[i][1].kind = "Type"}

\* the (table, field name, enum name) of every enum field handed to the extractor
EnumFields ==
    UNION {{<<get_table_name(all_models[t]), UserFields(all_models[t])[k][1],
              UserFields(all_models[t])[k][2].annotation.name>> :
               k \in {j \in 1..Len(UserFields(all_models[t])) :
                        UserFields(all_models[t])[j][2].annotation.category = "enum"}} :
           t \in 1..Len(all_models)}

\* the Type object the extractor builds for an enum field
TypeOf(field) ==
    DBType(Lower(field[3]), EnumMembers(field[3]), {<<field[1], field[2]>>})

\* C18: the dependency list of the Type node emitted for an enum field is
\* exactly the Table node of the table that declares the field.
C18_TypeDependsOnItsTable ==
    Extracted =>
       \A field \in EnumFields :
          \A i \in TypeNodes :
             db_objects[i][1] = TypeOf(field) => db_objects[i][2] = <<DBTable(field[1])>>

\* C19: every Column node depends on the Table node of its table and, exactly
\* when its field is an enum, on the Type node of that field, and on nothing
\* else; every Table node has an empty dependency list.
C19_ColumnDependencies ==
    Extracted =>
       /\ \A i \in 1..Len(db_objects) :
             db_objects[i][1].kind = "Table" => db_objects[i][2] = <<>>
       /\ \A i \in 1..Len(db_objects) :
             db_objects[i][1].kind = "Column" =>
                Range(db_objects[i][2]) =
                   {DBTable(db_objects[i][1].table_name)}
                   \cup {TypeOf(field) : field \in
                            {f \in EnumFields :
                                /\ f[1] = db_objects[i][1].table_name
                                /\ f[2] = db_objects[i][1].column_name}}

\* a table with an enum column and plain columns
C19_Witness ==
    /\ Extracted
    /\ \E i, j \in 1..Len(db_objects) :
          /\ db_objects[i][1].kind = "Column" /\ Len(db_objects[i][2]) = 2
          /\ db_objects[j][1].kind = "Column" /\ Len(db_objects[j][2]) = 1
    /\ \E i \in 1..Len(db_objects) : db_objects[i][1].kind = "Table"

\* C20: the extractor emits one Type node for each enum field, with the
\* reference_columns of that field alone: an enum used by k fields gives k Type
\* nodes of the same representation.
C20_OneTypeNodePerField ==
    Extracted =>
       /\ Cardinality(TypeNodes) = Cardinality(EnumFields)
       /\ \A field \in EnumFields :
             Cardinality({i \in TypeNodes : db_objects[i][1] = TypeOf(field)}) = 1

\* two columns of one table are of the enum E1
C20_Witness ==
    /\ Extracted
    /\ \E i, j \in TypeNodes :
          /\ db_objects[i][1].name = "e1" /\ db_objects[j][1].name = "e1"
          /\ db_objects[i][1].reference_columns = {<<"t1", "v">>}
          /\ db_objects[j][1].reference_columns = {<<"t1", "w">>}

\* C21: two runs of the extractor on the same tables, listed in any order,
\* return the same sequence of (node, dependency list) pairs.
C21_ExtractionIsDeterministic ==
    pc = "extract_twice" => next_pairs = db_objects

\* the positions in db_objects of the Column nodes of a field
ColumnNodesOf(table, field_name) ==
    {i \in NodesOf("Column", table) : db_objects[i][1].column_name = field_name}

\* the JSON-like fields of the table that opt in
JsonOptIns(table) ==
    {UserFields(table)[k][1] :
        k \in {n \in 1..Len(UserFields(table)) :
                 /\ UserFields(table)[n][2].annotation.category = "json"
                 /\ UserFields(table)[n][2].is_json}}

\* C22: a JSON-like field that opts in yields one Column node of type JSON; a
\* JSON-like field that does not opt in makes the extraction fail with a
\* configuration error, and no Column node is emitted for it.
C22_JsonNeedsOptIn ==
    pc # "extract_call" =>
       \A t \in 1..Len(all_models) :
          /\ \A name \in RejectedFields(all_models[t]) :
                /\ pc = "extract_failed"
                /\ error = [kind |-> "ValueError",
                            rep  |-> "JSON fields must have Field(is_json=True) specified"]
                /\ ColumnNodesOf(all_models[t], name) = {}
          /\ \A name \in JsonOptIns(all_models[t]) :
                Extracted =>
                   /\ Cardinality(ColumnNodesOf(all_models[t], name)) = 1
                   /\ \A i \in ColumnNodesOf(all_models[t], name) :
                         db_objects[i][1].column_type = Primitive("JSON")

\* the extraction stops at a JSON-like field without the opt-in, after the
\* columns declared before it
C22_Witness ==
    /\ pc = "extract_failed"
    /\ RejectedFields(all_models[1]) = {"j"}
    /\ Len(UserFields(all_models[1])) >= 4
    /\ ColumnNodesOf(all_models[1], "id") # {}
    /\ ColumnNodesOf(all_models[1], "k") # {}
    /\ ColumnNodesOf(all_models[1], "j") = {}

-----------------------------------------------------------------------------
(* Further properties of build_actions *)

\* C23: every create and every migrate call is started before every destroy
\* call, and when the first destroy starts every object of the next state
\* that is new or changed has been created or migrated.
C23_DestroyAfterCreateAndMigrate ==
    /\ \A i, j \in 1..Len(started) :
          (started[i].op = "destroy" /\ started[j].op \in {"create", "migrate"})
             => j < i
    /\ (\E i \in 1..Len(started) : started[i].op = "destroy") =>
          \A r \in RepSet(next) :
             \/ Calls("create", r) # {}
             \/ Calls("migrate", r) # {}
             \/ /\ r \in RepSet(previous)
                /\ ObjectOf(previous, r) = ObjectOf(next, r)

\* a run with a create, a migrate and two destroys
C23_Witness ==
    /\ Done
    /\ \E i, j \in 1..Len(dry_run_actions) :
          dry_run_actions[i].op = "create" /\ dry_run_actions[j].op = "migrate"
    /\ Len(Destroys) >= 2

\* C24: build_actions starts at most one call for a representation, also when
\* a list holds several objects of that representation: a create exactly for
\* the representations only the next list holds, a destroy exactly for those
\* only the previous list holds, a migrate only for those both hold, and none
\* of them for an object that did not change.
C24_OneCallPerRepresentation ==
    /\ \A i, j \in 1..Len(started) :
          representation(started[i].obj) = representation(started[j].obj) => i = j
    /\ Done =>
          \A r \in RepSet(previous) \cup RepSet(next) :
             /\ Cardinality(CallsOn(r)) <= 1
             /\ Calls("create", r) # {} <=> r \in RepSet(next) \ RepSet(previous)
             /\ Calls("destroy", r) # {} <=> r \in RepSet(previous) \ RepSet(next)
             /\ Calls("migrate", r) # {} <=>
                   /\ r \in RepSet(previous) \cap RepSet(next)
                   /\ ObjectOf(previous, r) # ObjectOf(next, r)

\* the next list holds two objects of one representation, created by one
\* call, in a run that also migrates or destroys an object
C24_Witness ==
    /\ Done
    /\ \E i, j \in 1..Len(next) :
          /\ i # j /\ representation(next[i]) = representation(next[j])
          /\ Cardinality(Calls("create", representation(next[i]))) = 1
    /\ \E k \in 1..Len(dry_run_actions) : dry_run_actions[k].op # "create"

\* C25: when build_actions fails its check of the rank maps against the
\* object lists, no call has been started: the actor has recorded nothing.
C25_NoCallBeforeRefusal ==
    pc = "failed" =>
       /\ error.kind = "ValueError"
       /\ started = <<>>
       /\ in_flight = {}
       /\ dry_run_actions = <<>>

\* a refused call that would have had objects to create and to destroy
C25_Witness ==
    /\ pc = "failed"
    /\ RepSet(next) \ RepSet(previous) # {}
    /\ RepSet(previous) \ RepSet(next) # {}
    /\ dry_run_actions = <<>>

-----------------------------------------------------------------------------
(* Further properties of order_db_objects *)

\* what the listings of a representation merge to: a Type gathers the values
\* and reference columns of all of them, any other kind is the one listing
MergedListing(pairs, r) ==
    LET listed == Occurrences(pairs, r)
        some   == CHOOSE o \in listed : TRUE
    IN  IF some.kind = "Type"
        THEN DBType(some.name, UNION {o.values : o \in listed},
                    UNION {o.reference_columns : o \in listed})
        ELSE some

\* C26: the returned rank map has one key for each representation that a
\* non-pointer object of the input defines, that key is the merged object of
\* the representation, and the ranks are exactly 0..N-1, each given once.
C26_RankMapIsBijection ==
    Returned =>
       LET ranks == order_result.ranks
           N     == Cardinality(DefinedReps(db_objects))
       IN  /\ DOMAIN ranks = {MergedListing(db_objects, r) : r \in DefinedReps(db_objects)}
           /\ Cardinality(DOMAIN ranks) = N
           /\ {ranks[obj] : obj \in DOMAIN ranks} = 0..(N - 1)
           /\ \A a, b \in DOMAIN ranks : ranks[a] = ranks[b] => a = b

\* a rank map of two keys from an input of three pairs, two of which list
\* one Type differently
C26_Witness ==
    /\ Returned
    /\ Len(db_objects) = 3
    /\ Cardinality(DOMAIN order_result.ranks) = 2
    /\ Cardinality(Occurrences(db_objects, "e1")) = 2

\* every dependency edge written in the input, whichever pair lists it
ListedEdges(pairs) ==
    UNION {{<<representation(pairs[i][1]), representation(pairs[i][2][k])>> :
               k \in 1..Len(pairs[i][2])} : i \in 1..Len(pairs)}

\* a representation listed in two pairs with different dependency lists
ListedWithDifferentDependencies(pairs) ==
    \E i, j \in 1..Len(pairs) :
       /\ representation(pairs[i][1]) = representation(pairs[j][1])
       /\ pairs[i][2] # pairs[j][2]

\* C27: when a representation is listed in several pairs with different
\* dependency lists, the returned ranks put the canonical object above every
\* dependency that any of those pairs lists.
C27_NoDependencyEdgeLost ==
    (Returned /\ WellFormed(db_objects)
        /\ ListedWithDifferentDependencies(db_objects)
        /\ Acyclic(ListedEdges(db_objects)))
       => \A e \in ListedEdges(db_objects) :
             RankOf(order_result.ranks, e[2]) < RankOf(order_result.ranks, e[1])

-----------------------------------------------------------------------------
(* DBConnection: transaction blocks and the operations that write *)

\* _get_primary_key: the name of the primary key field, "" for None
get_primary_key(model) == IF model = "User" THEN "id" ELSE ""

\* _aggregate_models_by_table: a dict keyed by class, in first-seen order
aggregate_models_by_table(objects) ==
    LET classes == Dedup([i \in 1..Len(objects) |-> ClassOf(objects[i])])
    IN  [g \in 1..Len(classes) |->
           [model |-> classes[g],
            model_objects |-> SelectSeq(objects, LAMBDA obj : ClassOf(obj) = classes[g])]]

\* what a call does, step by step
Begin         == [kind |-> "begin", obj |-> ""]
End           == [kind |-> "end", obj |-> ""]
Statement(obj) == [kind |-> "statement", obj |-> obj]
Clear(obj)    == [kind |-> "clear", obj |-> obj]
NoPrimaryKey  == [kind |-> "ValueError", obj |-> ""]

\* _ensure_transaction: a transaction() block of its own around the body
\* unless in_transaction is set
ensure_transaction(flag, body) ==
    IF ~flag THEN <<Begin>> \o body \o <<End>> ELSE body

\* insert: one _ensure_transaction per model group
insert_steps(objects, flag) ==
    IF objects = <<>> THEN <<>>
    ELSE LET groups == aggregate_models_by_table(objects)
         IN  Flatten([g \in 1..Len(groups) |->
                ensure_transaction(flag,
                   Flatten([i \in 1..Len(groups[g].model_objects) |->
                      <<Statement(groups[g].model_objects[i]),
                        Clear(groups[g].model_objects[i])>>]))])

\* upsert: one _ensure_transaction around all groups
upsert_steps(objects, flag) ==
    IF objects = <<>> THEN <<>>
    ELSE LET groups == aggregate_models_by_table(objects)
         IN  ensure_transaction(flag,
                Flatten([g \in 1..Len(groups) |->
                   Flatten([i \in 1..Len(groups[g].model_objects) |->
                      <<Statement(groups[g].model_objects[i]),
                        Clear(groups[g].model_objects[i])>>])]))

\* update: a group without primary key raises; an instance with modified
\* attributes gets a statement and is cleared right after it; an instance
\* listed again has nothing modified left
update_steps(objects, flag, modified) ==
    IF objects = <<>> THEN <<>>
    ELSE LET groups == aggregate_models_by_table(objects)
             sent(objs) == Dedup(SelectSeq(objs, LAMBDA obj : modified[obj] # {}))
         IN  ensure_transaction(flag,
                Flatten([g \in 1..Len(groups) |->
                   IF get_primary_key(groups[g].model) = "" THEN <<NoPrimaryKey>>
                   ELSE Flatten([i \in 1..Len(sent(groups[g].model_objects)) |->
                           <<Statement(sent(groups[g].model_objects)[i]),
                             Clear(sent(groups[g].model_objects)[i])>>])]))

\* delete: no early return; a group without primary key raises
delete_steps(objects, flag) ==
    LET groups == aggregate_models_by_table(objects)
    IN  ensure_transaction(flag,
           Flatten([g \in 1..Len(groups) |->
              IF get_primary_key(groups[g].model) = "" THEN <<NoPrimaryKey>>
              ELSE [i \in 1..Len(groups[g].model_objects) |->
                      Statement(groups[g].model_objects[i])]]))

\* the steps that talk to the database and can raise
FailurePoints(steps) ==
    {0} \cup {i \in 1..Len(steps) : steps[i].kind \in {"begin", "statement"}}

\* the call runs its steps up to the first that raises: the one the database
\* refuses (fail) or a missing primary key; a transaction that is open then
\* is rolled back on the way out
RunSteps(op, objects, steps, fail) ==
    LET stops == {i \in 1..Len(steps) : steps[i].kind = "ValueError" \/ i = fail}
        stop  == IF stops = {} THEN Len(steps) + 1
                 ELSE CHOOSE i \in stops : \A j \in stops : i <= j
        done  == SubSeq(steps, 1, stop - 1)
        count(kind) == Len(SelectSeq(done, LAMBDA e : e.kind = kind))
        outcome == IF stop > Len(steps) THEN "returned"
                   ELSE IF steps[stop].kind = "ValueError" THEN "ValueError"
                   ELSE IF steps[stop].kind = "begin" THEN "ConnectionError"
                   ELSE "StatementError"
    IN  [call |-> [op |-> op, listed |-> Len(objects), open_blocks |-> open_blocks,
                   begun |-> count("begin"), ended |-> count("begin"),
                   rolled_back |-> count("begin") - count("end"),
                   outcome |-> outcome,
                   cleared |-> {obj \in Instances :
                                  /\ modified_attrs[obj] # {}
                                  /\ Clear(obj) \in Range(done)}],
         \* transaction() sets the flag before it enters the connection's
         \* transaction and resets it when its body is left
         in_transaction |-> IF outcome = "ConnectionError" THEN TRUE
                            ELSE IF count("begin") > 0 THEN FALSE
                            ELSE in_transaction,
         modified |-> [obj \in Instances |->
                         IF Clear(obj) \in Range(done) THEN {} ELSE modified_attrs[obj]]]

ObjectLists == SeqsUpTo(Instances, MaxObjects)

SessionPlanUnchanged ==
    UNCHANGED <<pc, db_objects, order_result, models, all_models, prev_pairs,
                next_pairs, previous, previous_ordering, next, next_ordering,
                previous_by_name, next_by_name, prev_sorted, next_sorted,
                to_delete, idx, dry_run_actions, started, in_flight, error>>

InitSession ==
    /\ pc = "session"
    /\ db_objects = <<>>
    /\ order_result = NoResult
    /\ models = <<>> /\ all_models = <<>>
    /\ prev_pairs = <<>> /\ next_pairs = <<>>
    /\ previous = <<>> /\ previous_ordering = EmptyMap
    /\ next = <<>> /\ next_ordering = EmptyMap
    /\ previous_by_name = EmptyMap /\ next_by_name = EmptyMap
    /\ prev_sorted = <<>> /\ next_sorted = <<>>
    /\ to_delete = <<>> /\ idx = 0
    /\ dry_run_actions = <<>>
    /\ started = <<>> /\ in_flight = {}
    /\ error = NoError
    /\ SessionIdle

\* TableBase.__setattr__ on a model field
SetAttribute ==
    /\ pc = "session"
    /\ \E obj \in Instances, name \in Attributes :
          /\ name \notin modified_attrs[obj]
          /\ modified_attrs' = [modified_attrs EXCEPT ![obj] = @ \cup {name}]
    /\ UNCHANGED <<in_transaction, open_blocks, last_call>>
    /\ SessionPlanUnchanged

\* transaction(): the flag is set, the connection's transaction is entered
\* and the body of the block starts
EnterTransaction ==
    /\ pc = "session"
    /\ open_blocks < MaxDepth
    /\ in_transaction' = TRUE
    /\ open_blocks' = open_blocks + 1
    /\ UNCHANGED <<modified_attrs, last_call>>
    /\ SessionPlanUnchanged

\* transaction(): the flag is set and entering the connection's transaction
\* raises; the body never starts
EnterTransactionFails ==
    /\ pc = "session"
    /\ open_blocks < MaxDepth
    /\ in_transaction' = TRUE
    /\ UNCHANGED <<open_blocks, modified_attrs, last_call>>
    /\ SessionPlanUnchanged

\* transaction(): the body of the innermost block returns or raises; the
\* finally clause resets the flag and the connection's transaction ends
ExitTransaction ==
    /\ pc = "session"
    /\ open_blocks > 0
    /\ in_transaction' = FALSE
    /\ open_blocks' = open_blocks - 1
    /\ UNCHANGED <<modified_attrs, last_call>>
    /\ SessionPlanUnchanged

Operate(op, objects, steps) ==
    /\ \E fail \in FailurePoints(steps) :
          \E ran \in {RunSteps(op, objects, steps, fail)} :
             /\ last_call' = ran.call
             /\ in_transaction' = ran.in_transaction
             /\ modified_attrs' = ran.modified
    /\ UNCHANGED open_blocks
    /\ SessionPlanUnchanged

Insert ==
    /\ pc = "session"
    /\ \E objects \in ObjectLists :
          Operate("insert", objects, insert_steps(objects, in_transaction))

Upsert ==
    /\ pc = "session"
    /\ \E objects \in ObjectLists :
          Operate("upsert", objects, upsert_steps(objects, in_transaction))

Update ==
    /\ pc = "session"
    /\ \E objects \in ObjectLists :
          Operate("update", objects, update_steps(objects, in_transaction, modified_attrs))

Delete ==
    /\ pc = "session"
    /\ \E objects \in ObjectLists :
          Operate("delete", objects, delete_steps(objects, in_transaction))

NextSession ==
    \/ SetAttribute
    \/ EnterTransaction
    \/ EnterTransactionFails
    \/ ExitTransaction
    \/ Insert
    \/ Upsert
    \/ Update
    \/ Delete

SpecSession == InitSession /\ [][NextSession]_vars

-----------------------------------------------------------------------------
(* Properties of DBConnection *)

Called == last_call.op # "none" /\ last_call.listed > 0

\* C28: an insert, upsert, update or delete of some instances that is called
\* inside an open transaction() block begins no transaction; called outside
\* every block it begins exactly one and has ended it when it is over.
C28_OperationsJoinTheOpenTransaction ==
    Called =>
       /\ last_call.open_blocks > 0 => last_call.begun = 0
       /\ (last_call.open_blocks = 0 /\ last_call.outcome # "ConnectionError") =>
             /\ last_call.begun = 1
             /\ last_call.ended = 1

\* C29: in_transaction is set exactly while a transaction() block is open.
C29_FlagTracksOpenBlocks ==
    pc = "session" => (in_transaction <=> open_blocks > 0)

\* C30: when update raises and the transaction it opened is rolled back,
\* the call has cleared the modified attributes of no instance: every
\* instance has the record it had before the call.
C30_FailedUpdateKeepsModifiedAttributes ==
    (last_call.op = "update" /\ last_call.outcome # "returned"
        /\ last_call.rolled_back = 1)
       => last_call.cleared = {}

====
